---- MODULE Spec2Model ----
(***************************************************************************)
(* Model of launchstack's shared graph registry (aegra.json) as kept by    *)
(* backend/app/utils/aegra_json.py: one JSON document                      *)
(* {"graphs": {graph_id: graph_path}} mutated under an advisory file lock  *)
(* and written through a temp file and os.replace.                         *)
(*                                                                         *)
(* Each handler is split at its system calls (lock acquire/release, reads  *)
(* and writes of the canonical file, writes of the temp file), so that     *)
(* processes interleave exactly where the operating system lets them.      *)
(***************************************************************************)
EXTENDS Naturals, Sequences, FiniteSets, TLC

\* ------------------------------------------------------------------ bounds
\* Longest member list of a "graphs" object found in the file before the run.
MaxEntries == 2
\* How many completed successful mutations the call history remembers.
HistLen == 2
\* How many background tasks are dispatched in one behaviour.
MaxTasks == 2

\* --------------------------------------------------------------- identifiers
StackIds == {"s1", "s2"}
AgentIds == {"a1", "a2"}

\* graph_id = f"{stack_id}__{agent_id}"
GraphId(stack_id, agent_id) == stack_id \o "__" \o agent_id

\* The agents the callers register: two agents of one stack.
Units == {<<"s1", "a1">>, <<"s1", "a2">>}
Ids == {GraphId(u[1], u[2]) : u \in Units}
Paths == {"p1", "p2"}

\* The processes (pids) that use the registry; NoProc holds a free lock.
Procs == {"pid1", "pid2"}
NoProc == "nobody"

\* ------------------------------------------------------ Python dict / JSON
\* A Python dict (and a JSON object's member list) is a sequence of
\* <<key, value>> pairs in insertion order; a dict holds each key once.
DictHas(g, key) == \E i \in 1..Len(g) : g[i][1] = key

DictGet(g, key) ==
  IF DictHas(g, key)
  THEN g[CHOOSE i \in 1..Len(g) : g[i][1] = key /\ \A j \in (i+1)..Len(g) : g[j][1] # key][2]
  ELSE "<none>"

\* d[key] = value: overwrite in place, else append.
DictSet(g, key, value) ==
  IF DictHas(g, key)
  THEN [i \in 1..Len(g) |-> IF g[i][1] = key THEN <<key, value>> ELSE g[i]]
  ELSE Append(g, <<key, value>>)

\* del d[key]
DictDel(g, key) == SelectSeq(g, LAMBDA m : m[1] # key)

\* json.loads of an object's member list: a repeated key keeps its first
\* position and its last value.
RECURSIVE LoadMembers(_)
LoadMembers(g) ==
  IF g = << >> THEN << >>
  ELSE LET n == Len(g)
       IN DictSet(LoadMembers(SubSeq(g, 1, n - 1)), g[n][1], g[n][2])

\* File contents, by what json.loads and the handlers make of them:
\*   missing   no file at the path
\*   empty     a file of no (or only blank) characters
\*   binary    bytes that do not decode as UTF-8
\*   garbage   text that is not JSON (a truncated or torn document)
\*   scalar    a JSON number, true, false or null
\*   array     a JSON array or string without "graphs" in it
\*   arrayg    a JSON array or string with "graphs" in it
\*   nokey     a JSON object without a "graphs" member
\*   gscalar   a JSON object whose "graphs" is a number
\*   garray    a JSON object whose "graphs" is an array
\*   object    a JSON object whose "graphs" is the object with members g
Content(kind, members) == [k |-> kind, g |-> members]
NoFile == Content("missing", << >>)
EmptyFile == Content("empty", << >>)
Garbage == Content("garbage", << >>)

\* In-memory Python values: the same kinds, "dict" for a dict with a dict
\* under "graphs".
EmptyRegistry == Content("dict", << >>)

\* json.dump(data, f, indent=2): the document a value serialises to.
JsonDump(data) ==
  IF data.k = "dict" THEN Content("object", data.g) ELSE data

\* json.loads(content): the value, or "JSONDecodeError".
JsonLoads(c) ==
  CASE c.k \in {"empty", "garbage"} -> [err |-> "JSONDecodeError", data |-> EmptyRegistry]
    [] c.k = "object" -> [err |-> "", data |-> Content("dict", LoadMembers(c.g))]
    [] OTHER -> [err |-> "", data |-> c]

\* What the uncoordinated consumer needs of the canonical file: a complete
\* JSON document of shape {"graphs": {...}}.
WellShaped(c) == c.k = "object"

\* The graph_path the consumer finds for a key ("<none>" when it finds none).
Lookup(c, key) == IF c.k = "object" THEN DictGet(LoadMembers(c.g), key) ELSE "<none>"

\* --------------------------------------------------------------------- state
VARIABLES
  file,       \* AEGRA_JSON_FILE: NoFile or its content
  dirExists,  \* AEGRA_DATA_DIR exists
  lock,       \* holder of the FileLock on LOCK_FILE, NoProc when free
  tmp,        \* per process: its temp file .aegra.json.tmp.<pid>
  orphan,     \* per process: the inode it opened at the path was since replaced
  pc,         \* per process: where its call stands
  call,       \* per process: the call in progress or last returned
  mem,        \* per process: the dict the call holds in memory
  ret,        \* per process: what the last call returned or raised
  pre,        \* observer: canonical file and directory when the call began
  hist,       \* observer: the last successful mutations, oldest first
  superseded, \* observer: per process, another process has since written
              \*   the entry (or the whole document) its last call wrote
  touched,    \* observer: per process, its call changed the canonical file
              \*   or created the directory
  overlapped, \* observer: the call begun last began while another was running
  environment, \* settings.environment
  stackRow,   \* the row of the stack in table stacks (status "none": no row)
  agentRow,   \* per agent: its row in table agents
  namespace,  \* the stack's k8s namespace: "absent" or "present"
  postgres,   \* the PostgreSQL resources in it: "absent", "partial", "present"
  stackDir,   \* stacks/<stack_id>/ exists on disk
  agentDir,   \* per agent: what stacks/<stack_id>/agents/<agent_id>/ holds
  upload,     \* per agent: the uploaded temp file and the tree zipped in it
  tasks,      \* the background tasks dispatched so far, in dispatch order
  rejected    \* the last request answered with an error, and that error

regVars ==
  <<dirExists, lock, tmp, orphan, pc, call, mem, ret,
    pre, hist, superseded, touched, overlapped>>

orchVars ==
  <<environment, stackRow, agentRow, namespace, postgres, stackDir, agentDir,
    upload, tasks, rejected>>

vars == <<file, regVars, orchVars>>

NoCall == [op |-> "none", id |-> "", path |-> ""]
NoRet == [err |-> "", data |-> NoFile]
NoPre == [file |-> NoFile, dir |-> FALSE]

\* Registry documents with at most n members, repeated keys included.
RECURSIVE MemberLists(_)
MemberLists(n) ==
  IF n = 0 THEN {<< >>}
  ELSE LET shorter == MemberLists(n - 1)
       IN shorter \cup {Append(g, <<i, p>>) : g \in shorter, i \in Ids, p \in Paths}

ValidFiles == {Content("object", g) : g \in MemberLists(MaxEntries)}
MalformedFiles ==
  {Content(kind, << >>) :
     kind \in {"binary", "garbage", "scalar", "array", "arrayg", "nokey",
               "gscalar", "garray"}}

InitProg(files) ==
  /\ file \in files
  /\ dirExists \in (IF file = NoFile THEN BOOLEAN ELSE {TRUE})
  /\ lock = NoProc
  /\ tmp = [p \in Procs |-> NoFile]
  /\ orphan = [p \in Procs |-> FALSE]
  /\ pc = [p \in Procs |-> "idle"]
  /\ call = [p \in Procs |-> NoCall]
  /\ mem = [p \in Procs |-> EmptyRegistry]
  /\ ret = [p \in Procs |-> NoRet]

InitObs ==
  /\ pre = NoPre
  /\ hist = << >>
  /\ superseded = [p \in Procs |-> FALSE]
  /\ touched = [p \in Procs |-> FALSE]
  /\ overlapped = FALSE

\* The orchestrator at rest: no unit, no task, nothing provisioned.
TheStack == "s1"
NoStack == [status |-> "none"]
NoAgent ==
  [status |-> "none", name |-> "", graph_id |-> "", disk_path |-> "", api_url |-> "",
   ui_url |-> ""]
NoRejection == [op |-> "", unit |-> "", error |-> ""]

\* Agent.name, unique within a stack; the name the model's requests give to
\* agent a when they do not choose one.
AgentName(a) == "name-" \o a
AgentNames == {AgentName(a) : a \in AgentIds}

\* created_by of every row, and the users who send requests.
Owner == "u1"
Users == {"u1", "u2"}
NoUpload == [temp |-> "missing", tree |-> {}]

InitNoTasks ==
  /\ environment = "development"
  /\ stackRow = NoStack
  /\ agentRow = [a \in AgentIds |-> NoAgent]
  /\ namespace = "absent"
  /\ postgres = "absent"
  /\ stackDir = FALSE
  /\ agentDir = [a \in AgentIds |-> "absent"]
  /\ upload = [a \in AgentIds |-> NoUpload]
  /\ tasks = << >>
  /\ rejected = NoRejection

Idle(p) == pc[p] \in {"idle", "done"}

\* A call starts: its arguments are recorded and it moves to its first step.
Start(p, c, data, first) ==
  /\ Idle(p)
  /\ call' = [call EXCEPT ![p] = c]
  /\ mem' = [mem EXCEPT ![p] = data]
  /\ ret' = [ret EXCEPT ![p] = NoRet]
  /\ pc' = [pc EXCEPT ![p] = first]
  /\ UNCHANGED <<file, dirExists, lock, tmp, orphan>>

\* A call returns (or raises) with outcome r.
Finish(p, r) ==
  /\ ret' = [ret EXCEPT ![p] = r]
  /\ pc' = [pc EXCEPT ![p] = "done"]

Goto(p, label) == pc' = [pc EXCEPT ![p] = label]

\* ------------------------------------------------- ensure_aegra_json_exists
\* main.py calls it at startup; read_aegra_json and
\* _write_aegra_json_unlocked call it first.
BeginEnsure(p) ==
  Start(p, [op |-> "ensure", id |-> "", path |-> ""], EmptyRegistry, "e_check")

\* Where a handler continues once ensure_aegra_json_exists has returned.
AfterEnsure(op) ==
  CASE op = "ensure" -> "done"
    [] op = "read" -> "acquire"
    [] op = "validate" -> "rd"
    [] OTHER -> "t_open"

\* The file is (re)initialised when it is missing, when it is blank and
\* when reading it raises.
NeedsInit(c) == c.k \in {"missing", "empty", "binary"}

\* mkdir(parents=True, exist_ok=True); exists(); read().strip()
EnsureCheck(p) ==
  /\ pc[p] = "e_check"
  /\ dirExists' = TRUE
  /\ IF NeedsInit(file)
     THEN Goto(p, "e_open")
     ELSE Goto(p, AfterEnsure(call[p].op))
  /\ UNCHANGED <<file, lock, tmp, orphan, call, mem, ret>>

\* open(AEGRA_JSON_FILE, "w"): creates or truncates the canonical file.
EnsureOpen(p) ==
  /\ pc[p] = "e_open"
  /\ file' = EmptyFile
  /\ orphan' = [orphan EXCEPT ![p] = FALSE]
  /\ Goto(p, "e_dump")
  /\ UNCHANGED <<dirExists, lock, tmp, call, mem, ret>>

\* json.dump({"graphs": {}}, f, indent=2) and close: the bytes reach the
\* inode opened above, which is the canonical file unless it was replaced.
EnsureDump(p) ==
  /\ pc[p] = "e_dump"
  /\ file' = IF orphan[p] THEN file ELSE JsonDump(EmptyRegistry)
  /\ orphan' = [orphan EXCEPT ![p] = FALSE]
  /\ Goto(p, AfterEnsure(call[p].op))
  /\ UNCHANGED <<dirExists, lock, tmp, call, mem, ret>>

\* ------------------------------------------------------------------ locking
\* Mutant of Acquire: the lock is taken without waiting for its holder.
AcquireWithoutWaiting(p) ==
  /\ pc[p] = "acquire"
  /\ lock' = p
  /\ Goto(p, IF call[p].op = "write" THEN "w_check" ELSE "rd")
  /\ UNCHANGED <<file, dirExists, tmp, orphan, call, mem, ret>>

\* FileLock(str(LOCK_FILE), timeout=...): "with lock:" entered.
Acquire(p) ==
  /\ pc[p] = "acquire"
  /\ lock = NoProc
  /\ lock' = p
  /\ Goto(p, IF call[p].op = "write" THEN "w_check" ELSE "rd")
  /\ UNCHANGED <<file, dirExists, tmp, orphan, call, mem, ret>>

\* What each handler says when the wait for the lock ran out.
TimeoutVerb(op) ==
  CASE op = "read" -> "read"
    [] op = "write" -> "write"
    [] op = "upsert" -> "update"
    [] OTHER -> "remove from"

\* except Timeout: raise Exception("Timeout acquiring lock to ... aegra.json")
TimeoutError(op) == "Exception: Timeout acquiring lock to " \o TimeoutVerb(op) \o " aegra.json"

\* filelock.Timeout: another process held the lock for the whole wait
\* (10 s for a read, 30 s for a mutation).
LockTimeout(p) ==
  /\ pc[p] = "acquire"
  /\ lock \notin {NoProc, p}
  /\ Finish(p, [err |-> TimeoutError(call[p].op), data |-> NoFile])
  /\ UNCHANGED <<file, dirExists, lock, tmp, orphan, call, mem>>

\* Leaving "with lock:", normally or by an exception passing through.
Release(p) ==
  /\ pc[p] = "release"
  /\ lock' = IF lock = p THEN NoProc ELSE lock
  /\ mem' = [mem EXCEPT ![p] = EmptyRegistry]
  /\ Goto(p, "done")
  /\ UNCHANGED <<file, dirExists, tmp, orphan, call, ret>>

\* An exception raised inside "with lock:".
Raise(p, e) ==
  /\ ret' = [ret EXCEPT ![p] = [err |-> e, data |-> NoFile]]
  /\ Goto(p, "release")

\* ------------------------------------------------------- _read_json_unlocked
ReadJsonUnlocked(c) ==
  CASE c.k \in {"missing", "empty"} -> [err |-> "", data |-> EmptyRegistry]
    [] c.k = "binary" -> [err |-> "UnicodeDecodeError", data |-> NoFile]
    [] c.k = "garbage" -> [err |-> "JSONDecodeError", data |-> NoFile]
    [] c.k \in {"scalar", "array"} -> [err |-> "TypeError", data |-> NoFile]
    [] c.k = "nokey" -> [err |-> "", data |-> EmptyRegistry]
    [] OTHER -> JsonLoads(c)

\* ------------------------------------------------------------ read_aegra_json
BeginRead(p) ==
  Start(p, [op |-> "read", id |-> "", path |-> ""], EmptyRegistry, "e_check")

\* with lock: return _read_json_unlocked()
ReadLocked(p) ==
  /\ pc[p] = "rd"
  /\ call[p].op = "read"
  /\ ret' = [ret EXCEPT ![p] = ReadJsonUnlocked(file)]
  /\ Goto(p, "release")
  /\ UNCHANGED <<file, dirExists, lock, tmp, orphan, call, mem>>

\* -------------------------------------------------------- validate_aegra_json
BeginValidate(p) ==
  Start(p, [op |-> "validate", id |-> "", path |-> ""], EmptyRegistry, "v_exists")

\* if not AEGRA_JSON_FILE.exists(): return False, "File does not exist"
ValidateExists(p) ==
  /\ pc[p] = "v_exists"
  /\ IF file = NoFile
     THEN Finish(p, [err |-> "File does not exist", data |-> NoFile])
     ELSE Goto(p, "e_check") /\ UNCHANGED ret
  /\ UNCHANGED <<file, dirExists, lock, tmp, orphan, call, mem>>

\* The (is_valid, error_message) pair, is_valid being error_message = "".
ValidateResult(r) ==
  CASE r.err = "JSONDecodeError" -> "Invalid JSON"
    [] r.err # "" -> "Error reading file"
    [] r.data.k = "arrayg" -> "JSON is not a dictionary"
    [] r.data.k = "nokey" -> "Missing 'graphs' key"
    [] r.data.k \in {"gscalar", "garray"} -> "'graphs' is not a dictionary"
    [] OTHER -> ""

\* data = read_aegra_json(use_lock=False), then the structure checks.
ValidateRead(p) ==
  /\ pc[p] = "rd"
  /\ call[p].op = "validate"
  /\ Finish(p, [err |-> ValidateResult(ReadJsonUnlocked(file)), data |-> NoFile])
  /\ UNCHANGED <<file, dirExists, lock, tmp, orphan, call, mem>>

\* --------------------------------------------------------- update_graph_entry
BeginUpsert(p) ==
  \E u \in Units, path \in Paths :
    Start(p, [op |-> "upsert", id |-> GraphId(u[1], u[2]), path |-> path],
          EmptyRegistry, "acquire")

\* Mutant of SetEntry: an entry already present keeps its path (setdefault).
SetEntryKeepsOld(data, graph_id, graph_path) ==
  IF data.k = "dict"
  THEN [err |-> "",
        data |-> IF DictHas(data.g, graph_id) THEN data
                 ELSE Content("dict", Append(data.g, <<graph_id, graph_path>>))]
  ELSE [err |-> "TypeError", data |-> NoFile]

\* Mutant of SetEntry: the mapping is replaced by the one new entry.
SetEntryAlone(data, graph_id, graph_path) ==
  IF data.k = "dict"
  THEN [err |-> "", data |-> Content("dict", <<(<<graph_id, graph_path>>)>>)]
  ELSE [err |-> "TypeError", data |-> NoFile]

\* data["graphs"][graph_id] = graph_path
SetEntry(data, graph_id, graph_path) ==
  IF data.k = "dict"
  THEN [err |-> "", data |-> Content("dict", DictSet(data.g, graph_id, graph_path))]
  ELSE [err |-> "TypeError", data |-> NoFile]

\* data = _read_json_unlocked(); data["graphs"][graph_id] = graph_path
UpsertMerge(p) ==
  /\ pc[p] = "rd"
  /\ call[p].op = "upsert"
  /\ LET r == ReadJsonUnlocked(file)
         m == SetEntry(r.data, call[p].id, call[p].path)
     IN IF r.err # "" THEN Raise(p, r.err) /\ UNCHANGED mem
        ELSE IF m.err # "" THEN Raise(p, m.err) /\ UNCHANGED mem
        ELSE /\ mem' = [mem EXCEPT ![p] = m.data]
             /\ Goto(p, "w_check")
             /\ UNCHANGED ret
  /\ UNCHANGED <<file, dirExists, lock, tmp, orphan, call>>

\* --------------------------------------------------------- remove_graph_entry
BeginRemove(p) ==
  \E u \in Units :
    Start(p, [op |-> "remove", id |-> GraphId(u[1], u[2]), path |-> ""],
          EmptyRegistry, "acquire")

\* graph_id in data.get("graphs", {}): "yes", "no" or the exception raised.
\* Mutant of HasEntry: the membership test always answers yes.
HasEntryAlways(data, graph_id) == "yes"

HasEntry(data, graph_id) ==
  CASE data.k = "dict" -> IF DictHas(data.g, graph_id) THEN "yes" ELSE "no"
    [] data.k = "arrayg" -> "AttributeError"
    [] data.k = "garray" -> "no"
    [] OTHER -> "TypeError"

\* Mutant of DelEntry: nothing is deleted.
DelEntryKeeps(data, graph_id) == data

\* del data["graphs"][graph_id]
DelEntry(data, graph_id) == Content("dict", DictDel(data.g, graph_id))

\* data = _read_json_unlocked(); if graph_id in graphs: del ...; write
RemoveMerge(p) ==
  /\ pc[p] = "rd"
  /\ call[p].op = "remove"
  /\ LET r == ReadJsonUnlocked(file)
         h == HasEntry(r.data, call[p].id)
     IN IF r.err # "" THEN Raise(p, r.err) /\ UNCHANGED mem
        ELSE IF h = "yes"
        THEN /\ mem' = [mem EXCEPT ![p] = DelEntry(r.data, call[p].id)]
             /\ Goto(p, "w_check")
             /\ UNCHANGED ret
        ELSE IF h = "no" THEN Goto(p, "release") /\ UNCHANGED <<mem, ret>>
        ELSE Raise(p, h) /\ UNCHANGED mem
  /\ UNCHANGED <<file, dirExists, lock, tmp, orphan, call>>

\* ----------------------------------------------------------- write_aegra_json
\* The documents a caller hands to write_aegra_json.
WriteDocs ==
  {EmptyRegistry, Content("nokey", << >>)}
    \cup {Content("dict", <<(<<i, "p1">>)>>) : i \in Ids}

BeginWrite(p) ==
  \E data \in WriteDocs :
    Start(p, [op |-> "write", id |-> "", path |-> ""], data, "acquire")

\* ------------------------------------------------ _write_aegra_json_unlocked
\* if "graphs" not in data: raise ValueError
WriteCheck(p) ==
  /\ pc[p] = "w_check"
  /\ IF mem[p].k = "nokey"
     THEN Raise(p, "ValueError")
     ELSE Goto(p, "e_check") /\ UNCHANGED ret
  /\ UNCHANGED <<file, dirExists, lock, tmp, orphan, call, mem>>

\* A step of the try block raised: on to the except clause.
Fail(p, e) ==
  /\ ret' = [ret EXCEPT ![p] = [err |-> e, data |-> NoFile]]
  /\ Goto(p, "t_cleanup")

\* open(temp_file, "w")
TmpOpen(p) ==
  /\ pc[p] = "t_open"
  /\ \/ /\ tmp' = [tmp EXCEPT ![p] = EmptyFile]
        /\ Goto(p, "t_dump")
        /\ UNCHANGED ret
     \/ /\ Fail(p, "OSError: open temp")
        /\ UNCHANGED tmp
  /\ UNCHANGED <<file, dirExists, lock, orphan, call, mem>>

\* json.dump(data, f, ...); f.flush(); os.fsync(f.fileno())
\* The write may raise part-way, fsync may raise after a full write, and a
\* short write may go unreported.
TmpDump(p) ==
  /\ pc[p] = "t_dump"
  /\ \/ /\ tmp' = [tmp EXCEPT ![p] = JsonDump(mem[p])]
        /\ Goto(p, "t_parse")
        /\ UNCHANGED ret
     \/ /\ tmp' = [tmp EXCEPT ![p] = Garbage]
        /\ Fail(p, "OSError: dump")
     \/ /\ tmp' = [tmp EXCEPT ![p] = JsonDump(mem[p])]
        /\ Fail(p, "OSError: fsync")
     \/ /\ tmp' = [tmp EXCEPT ![p] = Garbage]
        /\ Goto(p, "t_parse")
        /\ UNCHANGED ret
  /\ UNCHANGED <<file, dirExists, lock, orphan, call, mem>>

\* json.load(f) on the temp file: does it parse?
TempFileParses(c) == JsonLoads(c).err = ""

\* with open(temp_file) as f: json.load(f)
\* except JSONDecodeError: raise Exception("Temp file contains invalid JSON")
TmpParse(p) ==
  /\ pc[p] = "t_parse"
  /\ IF TempFileParses(tmp[p])
     THEN Goto(p, "t_replace") /\ UNCHANGED ret
     ELSE Fail(p, "Exception: Temp file contains invalid JSON")
  /\ UNCHANGED <<file, dirExists, lock, tmp, orphan, call, mem>>

\* os.replace(temp_file, AEGRA_JSON_FILE), then the best-effort fsync of the
\* directory, whose failure is swallowed.
Replace(p) ==
  /\ pc[p] = "t_replace"
  /\ \/ /\ file' = tmp[p]
        /\ tmp' = [tmp EXCEPT ![p] = NoFile]
        /\ orphan' = [q \in Procs |-> orphan[q] \/ (q # p /\ pc[q] = "e_dump")]
        /\ Goto(p, "release")
        /\ UNCHANGED ret
     \/ /\ Fail(p, "OSError: replace")
        /\ UNCHANGED <<file, tmp, orphan>>
  /\ UNCHANGED <<dirExists, lock, call, mem>>

\* except Exception: if temp_file.exists(): temp_file.unlink(); raise
Cleanup(p) ==
  /\ pc[p] = "t_cleanup"
  /\ tmp' = [tmp EXCEPT ![p] = NoFile]
  /\ Goto(p, "release")
  /\ UNCHANGED <<file, dirExists, lock, orphan, call, mem, ret>>

\* ------------------------------------------------------------------ observers
\* History variables: they record what a run did and decide nothing.
Begins(p) == Idle(p) /\ pc'[p] \notin {"idle", "done"}
Returns(p) == pc[p] # "done" /\ pc'[p] = "done"
Mutation(c) == c.op \in {"upsert", "remove"}

Push(h, c) == IF Len(h) < HistLen THEN Append(h, c) ELSE Append(Tail(h), c)

\* One caller, one call at a time: the state each call started from, and
\* the run of successful upserts and removes that led to the present call.
Caller == "pid1"

ObserveSeq ==
  /\ pre' = IF Begins(Caller) THEN [file |-> file, dir |-> dirExists] ELSE pre
  /\ hist' =
       IF Begins(Caller)
       THEN IF Mutation(call[Caller]) /\ ret[Caller].err = "" THEN hist ELSE << >>
       ELSE IF Returns(Caller) /\ Mutation(call[Caller]) /\ ret'[Caller].err = ""
       THEN Push(hist, call[Caller])
       ELSE hist
  /\ UNCHANGED <<superseded, touched, overlapped>>

\* Concurrent writers: whose result another process has since written over.
Overwrites(p, q) ==
  /\ q # p
  /\ file' # file
  /\ (Mutation(call[p]) => call[p].id = call[q].id)

ObserveWriters(p) ==
  /\ superseded' =
       [q \in Procs |->
          IF q = p THEN (IF Begins(p) THEN FALSE ELSE superseded[p])
          ELSE superseded[q] \/ Overwrites(p, q)]
  /\ overlapped' =
       IF Begins(p) THEN \E q \in Procs \ {p} : ~Idle(q) ELSE overlapped
  /\ UNCHANGED <<pre, hist, touched>>

\* Concurrent callers: which calls changed the canonical file or created
\* its directory.
ObserveCallers(p) ==
  /\ touched' =
       [touched EXCEPT
          ![p] = IF Begins(p) THEN FALSE
                 ELSE touched[p] \/ file' # file \/ dirExists' # dirExists]
  /\ UNCHANGED <<pre, hist, superseded, overlapped>>

\* ------------------------------------------------------------ specifications
\* Concurrent processes issuing the four calls that take the lock:
\* read_aegra_json, write_aegra_json, update_graph_entry, remove_graph_entry.
Init ==
  /\ InitProg({NoFile, EmptyFile, Garbage, JsonDump(EmptyRegistry)})
  /\ InitObs
  /\ InitNoTasks

Next ==
  /\ UNCHANGED orchVars
  /\ \E p \in Procs :
       \/ BeginRead(p) /\ ObserveCallers(p)
       \/ BeginWrite(p) /\ ObserveCallers(p)
       \/ BeginUpsert(p) /\ ObserveCallers(p)
       \/ BeginRemove(p) /\ ObserveCallers(p)
       \/ EnsureCheck(p) /\ ObserveCallers(p)
       \/ EnsureOpen(p) /\ ObserveCallers(p)
       \/ EnsureDump(p) /\ ObserveCallers(p)
       \/ Acquire(p) /\ ObserveCallers(p)
       \/ LockTimeout(p) /\ ObserveCallers(p)
       \/ Release(p) /\ ObserveCallers(p)
       \/ ReadLocked(p) /\ ObserveCallers(p)
       \/ UpsertMerge(p) /\ ObserveCallers(p)
       \/ RemoveMerge(p) /\ ObserveCallers(p)
       \/ WriteCheck(p) /\ ObserveCallers(p)
       \/ TmpOpen(p) /\ ObserveCallers(p)
       \/ TmpDump(p) /\ ObserveCallers(p)
       \/ TmpParse(p) /\ ObserveCallers(p)
       \/ Replace(p) /\ ObserveCallers(p)
       \/ Cleanup(p) /\ ObserveCallers(p)

Spec == Init /\ [][Next]_vars

\* Concurrent writers: processes issuing upserts and removes only, from a
\* missing, an empty or a valid registry file.
FullRegistry == Content("object", <<(<<GraphId("s1", "a1"), "p1">>), (<<GraphId("s1", "a2"), "p1">>)>>)

InitWriters ==
  /\ InitProg({NoFile, EmptyFile, JsonDump(EmptyRegistry), FullRegistry})
  /\ InitObs
  /\ InitNoTasks

NextWriters ==
  /\ UNCHANGED orchVars
  /\ \E p \in Procs :
       \/ BeginUpsert(p) /\ ObserveWriters(p)
       \/ BeginRemove(p) /\ ObserveWriters(p)
       \/ Acquire(p) /\ ObserveWriters(p)
       \/ LockTimeout(p) /\ ObserveWriters(p)
       \/ Release(p) /\ ObserveWriters(p)
       \/ UpsertMerge(p) /\ ObserveWriters(p)
       \/ RemoveMerge(p) /\ ObserveWriters(p)
       \/ WriteCheck(p) /\ ObserveWriters(p)
       \/ EnsureCheck(p) /\ ObserveWriters(p)
       \/ EnsureOpen(p) /\ ObserveWriters(p)
       \/ EnsureDump(p) /\ ObserveWriters(p)
       \/ TmpOpen(p) /\ ObserveWriters(p)
       \/ TmpDump(p) /\ ObserveWriters(p)
       \/ TmpParse(p) /\ ObserveWriters(p)
       \/ Replace(p) /\ ObserveWriters(p)
       \/ Cleanup(p) /\ ObserveWriters(p)

SpecWriters == InitWriters /\ [][NextWriters]_vars

\* One caller issuing one call after another, from any state of the file.
InitSeq ==
  /\ InitProg({NoFile, EmptyFile} \cup MalformedFiles \cup ValidFiles)
  /\ InitObs
  /\ InitNoTasks

NextSeq ==
  /\ UNCHANGED orchVars
  /\ \/ BeginEnsure(Caller) /\ ObserveSeq
     \/ BeginRead(Caller) /\ ObserveSeq
     \/ BeginValidate(Caller) /\ ObserveSeq
     \/ BeginWrite(Caller) /\ ObserveSeq
     \/ BeginUpsert(Caller) /\ ObserveSeq
     \/ BeginRemove(Caller) /\ ObserveSeq
     \/ EnsureCheck(Caller) /\ ObserveSeq
     \/ EnsureOpen(Caller) /\ ObserveSeq
     \/ EnsureDump(Caller) /\ ObserveSeq
     \/ Acquire(Caller) /\ ObserveSeq
     \/ Release(Caller) /\ ObserveSeq
     \/ ReadLocked(Caller) /\ ObserveSeq
     \/ ValidateExists(Caller) /\ ObserveSeq
     \/ ValidateRead(Caller) /\ ObserveSeq
     \/ UpsertMerge(Caller) /\ ObserveSeq
     \/ RemoveMerge(Caller) /\ ObserveSeq
     \/ WriteCheck(Caller) /\ ObserveSeq
     \/ TmpOpen(Caller) /\ ObserveSeq
     \/ TmpDump(Caller) /\ ObserveSeq
     \/ TmpParse(Caller) /\ ObserveSeq
     \/ Replace(Caller) /\ ObserveSeq
     \/ Cleanup(Caller) /\ ObserveSeq

SpecSeq == InitSeq /\ [][NextSeq]_vars

\* Concurrent processes issuing upserts and removes next to the calls that
\* only look at the registry: read_aegra_json, validate_aegra_json and the
\* start-up ensure_aegra_json_exists of main.py's lifespan.
\* superseded[q]: since q's call began, another process has taken a step of
\* an upsert or a remove of the id q's call names.
ObserveDurable(p) ==
  /\ superseded' =
       [q \in Procs |->
          IF q = p THEN (IF Begins(p) THEN FALSE ELSE superseded[p])
          ELSE superseded[q] \/ (Mutation(call'[p]) /\ call'[p].id = call[q].id)]
  /\ overlapped' =
       IF Begins(p) THEN \E q \in Procs \ {p} : ~Idle(q) ELSE overlapped
  /\ UNCHANGED <<pre, hist, touched>>

InitDurable ==
  /\ InitProg({NoFile, EmptyFile, JsonDump(EmptyRegistry), FullRegistry})
  /\ InitObs
  /\ InitNoTasks

NextDurable ==
  /\ UNCHANGED orchVars
  /\ \E p \in Procs :
       \/ BeginEnsure(p) /\ ObserveDurable(p)
       \/ BeginRead(p) /\ ObserveDurable(p)
       \/ BeginValidate(p) /\ ObserveDurable(p)
       \/ BeginUpsert(p) /\ ObserveDurable(p)
       \/ BeginRemove(p) /\ ObserveDurable(p)
       \/ EnsureCheck(p) /\ ObserveDurable(p)
       \/ EnsureOpen(p) /\ ObserveDurable(p)
       \/ EnsureDump(p) /\ ObserveDurable(p)
       \/ Acquire(p) /\ ObserveDurable(p)
       \/ LockTimeout(p) /\ ObserveDurable(p)
       \/ Release(p) /\ ObserveDurable(p)
       \/ ReadLocked(p) /\ ObserveDurable(p)
       \/ ValidateExists(p) /\ ObserveDurable(p)
       \/ ValidateRead(p) /\ ObserveDurable(p)
       \/ UpsertMerge(p) /\ ObserveDurable(p)
       \/ RemoveMerge(p) /\ ObserveDurable(p)
       \/ WriteCheck(p) /\ ObserveDurable(p)
       \/ TmpOpen(p) /\ ObserveDurable(p)
       \/ TmpDump(p) /\ ObserveDurable(p)
       \/ TmpParse(p) /\ ObserveDurable(p)
       \/ Replace(p) /\ ObserveDurable(p)
       \/ Cleanup(p) /\ ObserveDurable(p)

SpecDurable == InitDurable /\ [][NextDurable]_vars

\* =============================================================== orchestrator
\* One stack (TheStack) and its agents (AgentIds), the four background tasks
\* of services/stack.py and services/agent.py, and the request handlers that
\* dispatch them.  A task is split at its external calls and its commits.

\* Mutant of Permissive: no environment tolerates control-plane failures.
PermissiveNowhere == FALSE

\* Mutant of Permissive: every environment tolerates control-plane failures.
PermissiveEverywhere == TRUE

\* settings.environment == "development"
Permissive == environment = "development"

NewTask(kind, unit) ==
  [kind |-> kind, unit |-> unit, pc |-> "load", agents |-> << >>, slug |-> "",
   tried |-> {}, log |-> << >>]

\* background_tasks.add_task(...)
Dispatch(kind, unit) ==
  /\ Len(tasks) < MaxTasks
  /\ tasks' = Append(tasks, NewTask(kind, unit))

TaskAt(i, kind, label) ==
  /\ i \in DOMAIN tasks
  /\ tasks[i].kind = kind
  /\ tasks[i].pc = label

\* The task moves on to label, having run the step it logs.
Advance(i, label, entry) ==
  tasks' = [tasks EXCEPT ![i].pc = label, ![i].log = Append(@, entry)]

\* A task is executing from its first statement to its return.
Executing(i) == tasks[i].pc \notin {"load", "done"}

\* stack.status = st; await task_db.commit().  The UPDATE of a row that is
\* gone raises, and the handlers around it find no row to mark.
CommitStackStatus(st) ==
  stackRow' = IF stackRow.status = "none" THEN stackRow
              ELSE [stackRow EXCEPT !.status = st]

\* ------------------------------------------------- registry calls of a task
\* aegra_json.update_graph_entry as one step of a task: the document after
\* a successful call.
RegistryUpsert(c, graph_id, graph_path) ==
  LET r == ReadJsonUnlocked(c)
      m == SetEntry(r.data, graph_id, graph_path)
  IN IF r.err = "" /\ m.err = "" THEN JsonDump(m.data) ELSE c

\* update_graph_entry raises what its read or its assignment raises.
RegistryUpsertRaises(c) ==
  LET r == ReadJsonUnlocked(c)
  IN r.err # "" \/ SetEntry(r.data, "id", "path").err # ""

\* aegra_json.validate_aegra_json as one step of a task: what it can answer
\* on document c, "" for valid; the open or the read can fail whatever the
\* document is.
RegistryValidate(c) == {ValidateResult(ReadJsonUnlocked(c)), "Error reading file"}

\* aegra_json.remove_graph_entry as one step of a task.
RegistryRemove(c, graph_id) ==
  LET r == ReadJsonUnlocked(c)
  IN IF r.err = "" /\ HasEntry(r.data, graph_id) = "yes"
     THEN JsonDump(DelEntry(r.data, graph_id))
     ELSE c

\* ------------------------------------------------------ routers: fast path
\* POST /stacks: the row with status "creating", then the creation task.
\* The stack gets a fresh uuid, so it is created once.
CreateStack ==
  /\ stackRow = NoStack
  /\ \A i \in DOMAIN tasks : tasks[i].kind \notin {"stack_create", "stack_delete"}
  /\ stackRow' = [status |-> "creating"]
  /\ Dispatch("stack_create", TheStack)
  /\ UNCHANGED <<file, regVars, environment, agentRow, namespace, postgres,
                 stackDir, agentDir, upload>>

\* DELETE /stacks/{id}: status "deleting" whatever it was, then the deletion
\* task.
DeleteStack ==
  /\ stackRow.status # "none"
  /\ stackRow' = [stackRow EXCEPT !.status = "deleting"]
  /\ Dispatch("stack_delete", TheStack)
  /\ UNCHANGED <<file, regVars, environment, agentRow, namespace, postgres,
                 stackDir, agentDir, upload>>

\* --------------------------------------------------- complete_stack_creation
SCLoad(i) ==
  /\ TaskAt(i, "stack_create", "load")
  /\ IF stackRow.status = "none"
     THEN Advance(i, "done", [step |-> "load", result |-> "not found"])
     ELSE Advance(i, "ns", [step |-> "load", result |-> "found"])
  /\ UNCHANGED <<file, regVars, environment, stackRow, agentRow, namespace,
                 postgres, stackDir, agentDir, upload>>

\* What core_v1.create_namespace can answer within or after the 5 s bound.
CreateNamespaceOutcomes ==
  IF namespace = "present" THEN {"409", "error", "timeout"}
  ELSE {"201", "error", "timeout"}

\* Mutant of CreateNamespaceRaises: "already exists" is an error too.
CreateNamespaceStrict(r) == r \in {"409", "error", "timeout"}

\* create_namespace raises on a timeout and on an ApiException other than 409.
CreateNamespaceRaises(r) == r \in {"error", "timeout"}

SCNamespace(i) ==
  /\ TaskAt(i, "stack_create", "ns")
  /\ \E r \in CreateNamespaceOutcomes :
       /\ namespace' \in (CASE r = "201" -> {"present"}
                            [] r = "timeout" -> {namespace, "present"}
                            [] OTHER -> {namespace})
       /\ IF CreateNamespaceRaises(r) /\ ~Permissive
          THEN /\ CommitStackStatus("failed")
               /\ Advance(i, "done", [step |-> "namespace", result |-> r])
          ELSE /\ UNCHANGED stackRow
               /\ Advance(i, "pg", [step |-> "namespace", result |-> r])
  /\ UNCHANGED <<file, regVars, environment, agentRow, postgres, stackDir,
                 agentDir, upload>>

\* What create_postgres_deployment (PVC, Secret, Deployment, Service, none of
\* them tolerating "already exists") can come to.
CreatePostgresOutcomes ==
  IF namespace = "present" /\ postgres = "absent" THEN {"ok", "error", "timeout"}
  ELSE IF namespace = "present" THEN {"409", "error", "timeout"}
  ELSE {"error", "timeout"}

SCPostgres(i) ==
  /\ TaskAt(i, "stack_create", "pg")
  /\ \E r \in CreatePostgresOutcomes :
       /\ postgres' \in (IF r = "ok" THEN {"present"}
                         ELSE IF namespace = "present" /\ postgres = "absent"
                         THEN {"absent", "partial"}
                         ELSE {postgres})
       /\ IF r # "ok" /\ ~Permissive
          THEN /\ CommitStackStatus("failed")
               /\ Advance(i, "done", [step |-> "postgres", result |-> r])
          ELSE /\ UNCHANGED stackRow
               /\ Advance(i, "dir", [step |-> "postgres", result |-> r])
  /\ UNCHANGED <<file, regVars, environment, agentRow, namespace, stackDir,
                 agentDir, upload>>

\* Mutant of StorageFailureIsFatal: permissive mode tolerates it as well.
StorageFailureTolerated == ~Permissive

\* The except branch around create_stack_directory has no development case.
StorageFailureIsFatal == TRUE

SCDirectory(i) ==
  /\ TaskAt(i, "stack_create", "dir")
  /\ \E r \in {"ok", "error"} :
       /\ stackDir' = (IF r = "ok" THEN TRUE ELSE stackDir)
       /\ IF r # "ok" /\ StorageFailureIsFatal
          THEN /\ CommitStackStatus("failed")
               /\ Advance(i, "done", [step |-> "directory", result |-> r])
          ELSE /\ UNCHANGED stackRow
               /\ Advance(i, "ready", [step |-> "directory", result |-> r])
  /\ UNCHANGED <<file, regVars, environment, agentRow, namespace, postgres,
                 agentDir, upload>>

SCReady(i) ==
  /\ TaskAt(i, "stack_create", "ready")
  /\ CommitStackStatus("ready")
  /\ Advance(i, "done", [step |-> "status", result |-> "ready"])
  /\ UNCHANGED <<file, regVars, environment, agentRow, namespace, postgres,
                 stackDir, agentDir, upload>>

\* --------------------------------------------------- complete_stack_deletion
\* select(Agent).where(Agent.stack_id == stack_id): the rows there are, each
\* with the graph_id it holds at that moment.
AgentOrder == <<"a1", "a2">>

LoadedAgents ==
  LET present == SelectSeq(AgentOrder, LAMBDA a : agentRow[a].status # "none")
  IN [k \in 1..Len(present) |->
        [id |-> present[k], graph_id |-> agentRow[present[k]].graph_id]]

SDLoad(i) ==
  /\ TaskAt(i, "stack_delete", "load")
  /\ IF stackRow.status = "none"
     THEN Advance(i, "done", [step |-> "load", result |-> "not found"])
     ELSE tasks' = [tasks EXCEPT ![i].pc = "registry",
                                 ![i].agents = LoadedAgents,
                                 ![i].log = Append(@, [step |-> "load", result |-> "found"])]
  /\ UNCHANGED <<file, regVars, environment, stackRow, agentRow, namespace,
                 postgres, stackDir, agentDir, upload>>

\* One turn of "for agent in agents": remove_graph_entry when graph_id is
\* set, its exception logged and the loop going on.
SDRemove(i) ==
  /\ TaskAt(i, "stack_delete", "registry")
  /\ tasks[i].agents # << >>
  /\ LET h == Head(tasks[i].agents)
     IN \E r \in (IF h.graph_id = "" THEN {"skipped"} ELSE {"ok", "error"}) :
          /\ file' = (IF r = "ok" THEN RegistryRemove(file, h.graph_id) ELSE file)
          /\ tasks' = [tasks EXCEPT
                         ![i].agents = Tail(@),
                         ![i].log = Append(@, [step |-> "remove:" \o h.id,
                                               result |-> r])]
  /\ UNCHANGED <<regVars, environment, stackRow, agentRow, namespace, postgres,
                 stackDir, agentDir, upload>>

\* validate_aegra_json() once, after the loop; its answer is only logged.
SDValidate(i) ==
  /\ TaskAt(i, "stack_delete", "registry")
  /\ tasks[i].agents = << >>
  /\ \E v \in RegistryValidate(file) :
       Advance(i, "ns", [step |-> "validate", result |-> v])
  /\ UNCHANGED <<file, regVars, environment, stackRow, agentRow, namespace,
                 postgres, stackDir, agentDir, upload>>

\* What core_v1.delete_namespace can answer within or after the 5 s bound.
DeleteNamespaceOutcomes ==
  IF namespace = "present" THEN {"200", "error", "timeout"}
  ELSE {"404", "error", "timeout"}

\* Mutant of SDNamespace: a failed namespace deletion ends the task.
SDNamespaceHalts(i) ==
  /\ TaskAt(i, "stack_delete", "ns")
  /\ \E r \in DeleteNamespaceOutcomes :
       /\ \E gone \in (CASE r = "200" -> {TRUE}
                         [] r = "timeout" -> {namespace = "present", FALSE}
                         [] OTHER -> {FALSE}) :
            /\ namespace' = (IF gone THEN "absent" ELSE namespace)
            /\ postgres' = (IF gone THEN "absent" ELSE postgres)
       /\ Advance(i, IF r \in {"error", "timeout"} THEN "done" ELSE "dir",
                  [step |-> "namespace", result |-> r])
  /\ UNCHANGED <<file, regVars, environment, stackRow, agentRow, stackDir,
                 agentDir, upload>>

\* delete_namespace: 404 is fine, any other failure is logged by the task.
SDNamespace(i) ==
  /\ TaskAt(i, "stack_delete", "ns")
  /\ \E r \in DeleteNamespaceOutcomes :
       /\ \E gone \in (CASE r = "200" -> {TRUE}
                         [] r = "timeout" -> {namespace = "present", FALSE}
                         [] OTHER -> {FALSE}) :
            /\ namespace' = (IF gone THEN "absent" ELSE namespace)
            /\ postgres' = (IF gone THEN "absent" ELSE postgres)
       /\ Advance(i, "dir", [step |-> "namespace", result |-> r])
  /\ UNCHANGED <<file, regVars, environment, stackRow, agentRow, stackDir,
                 agentDir, upload>>

\* The agents with something on disk.
AgentsOnDisk == {a \in AgentIds : agentDir[a] # "absent"}

\* shutil.rmtree(stack_path) walks stacks/<stack_id>/ and raises at the first
\* entry it cannot remove: the agent directories in "tried" were reached,
\* those in "removed" are gone, the walk stopped at "stuck" ("" when it got
\* through, "root" when the stack directory itself would not go).
RmtreeRuns ==
  {[tried |-> AgentsOnDisk, removed |-> AgentsOnDisk, stuck |-> ""],
   [tried |-> AgentsOnDisk, removed |-> AgentsOnDisk, stuck |-> "root"]}
  \cup {[tried |-> done \cup {x}, removed |-> done, stuck |-> x] :
          x \in AgentsOnDisk, done \in SUBSET AgentsOnDisk}

Rmtree == {w \in RmtreeRuns : w.stuck \notin w.removed}

\* delete_stack_directory, its exception logged by the task.
SDDirectory(i) ==
  /\ TaskAt(i, "stack_delete", "dir")
  /\ IF ~stackDir
     THEN /\ UNCHANGED <<stackDir, agentDir>>
          /\ Advance(i, "row", [step |-> "rmtree", result |-> "absent"])
     ELSE \E w \in Rmtree :
            /\ agentDir' = [a \in AgentIds |->
                              IF a \in w.removed THEN "absent" ELSE agentDir[a]]
            /\ stackDir' = (w.removed # AgentsOnDisk \/ w.stuck # "")
            /\ tasks' = [tasks EXCEPT
                           ![i].pc = "row",
                           ![i].tried = w.tried,
                           ![i].log = Append(@, [step |-> "rmtree",
                                                 result |-> IF w.stuck = "" THEN "ok"
                                                            ELSE "error"])]
  /\ UNCHANGED <<file, regVars, environment, stackRow, agentRow, namespace,
                 postgres, upload>>

\* await task_db.delete(stack); commit: the stack row and, by the cascade of
\* Stack.agents, the rows of its agents.
SDRow(i) ==
  /\ TaskAt(i, "stack_delete", "row")
  /\ stackRow' = NoStack
  /\ agentRow' = [a \in AgentIds |-> NoAgent]
  /\ Advance(i, "done", [step |-> "row", result |-> "deleted"])
  /\ UNCHANGED <<file, regVars, environment, namespace, postgres, stackDir,
                 agentDir, upload>>

\* ------------------------------------------- filesystem.detect_agent_slug
\* An extracted tree is the set of its entries below extracted/: each a path
\* (the names from the root down) that is a directory or a file.
Entry(path, isDir) == [path |-> path, dir |-> isDir]
EntryName == "graph.py"
DirNames == {"foo", "bar"}

\* Every entry of the trees modelled: directories foo, bar, foo/bar and
\* directories called graph.py at the root and in foo; graph.py as a file at
\* the root, in foo, in bar and in foo/bar.
AllEntries ==
  {Entry(<<d>>, TRUE) : d \in DirNames \cup {EntryName}}
  \cup {Entry(<<"foo", "bar">>, TRUE), Entry(<<"foo", EntryName>>, TRUE)}
  \cup {Entry(<<EntryName>>, FALSE), Entry(<<"foo", "bar", EntryName>>, FALSE)}
  \cup {Entry(<<d, EntryName>>, FALSE) : d \in DirNames}

Parent(path) == SubSeq(path, 1, Len(path) - 1)

\* A tree holds the directories above each entry, and one entry per path.
IsTree(t) ==
  /\ \A e \in t : Len(e.path) > 1 => Entry(Parent(e.path), TRUE) \in t
  /\ \A e, f \in t : e.path = f.path => e = f

Trees == {t \in SUBSET AllEntries : IsTree(t)}

\* extracted_path.rglob("graph.py"): every entry of that name, file or
\* directory, at any depth.
GraphFiles(t) == {e \in t : e.path[Len(e.path)] = EntryName}

\* [d for d in extracted_path.iterdir() if d.is_dir()]
TopLevelDirs(t) == {e \in t : Len(e.path) = 1 /\ e.dir}

\* while current.parent != extracted_path: current = current.parent
RECURSIVE WalkUp(_)
WalkUp(current) ==
  IF Len(current) <= 1 THEN current ELSE WalkUp(Parent(current))

\* The slug when rglob yields graph_py_path first.
SlugFor(t, graph_py_path) ==
  LET agent_dir == Parent(graph_py_path)
  IN IF agent_dir = << >>
     THEN IF Cardinality(TopLevelDirs(t)) = 1
          THEN (CHOOSE d \in TopLevelDirs(t) : TRUE).path[1]
          ELSE "agent"
     ELSE WalkUp(agent_dir)[1]

\* detect_agent_slug: what it can return on tree t, "ValueError" when it
\* raises.  rglob yields in directory-listing order, so any match can be
\* graph_files[0].
detect_agent_slug(t) ==
  IF GraphFiles(t) = {} THEN {"ValueError"}
  ELSE {SlugFor(t, e.path) : e \in GraphFiles(t)}

\* graph_file_path.exists() for extracted/<agent_slug>/graph.py
GraphFileExists(t, agent_slug) ==
  \E e \in t : e.path = <<agent_slug, EntryName>>

\* graph_path = f"./graphs/{stack_id}/agents/{agent_id}/extracted/{agent_slug}/graph.py:graph"
GraphPath(agent_id, agent_slug) == agent_id \o "/extracted/" \o agent_slug

\* --------------------------------------------------- routers: agent requests
\* The archives uploaded in the model: no entry file (a directory, a
\* directory called graph.py, a directory called graph.py inside foo);
\* foo/graph.py; graph.py at the root beside a directory; graph.py alone at
\* the root.
UploadTrees ==
  {{Entry(<<"foo">>, TRUE)},
   {Entry(<<EntryName>>, TRUE)},
   {Entry(<<"foo">>, TRUE), Entry(<<"foo", EntryName>>, TRUE)},
   {Entry(<<"foo">>, TRUE), Entry(<<"foo", EntryName>>, FALSE)},
   {Entry(<<"foo">>, TRUE), Entry(<<EntryName>>, FALSE)},
   {Entry(<<EntryName>>, FALSE)}}

Uploads ==
  {[temp |-> "present", tree |-> t] : t \in UploadTrees}
  \cup {[temp |-> "empty", tree |-> {}]}

\* POST /stacks/{stack_id}/agents: the stack must exist (in any status) and
\* the name be free in it; the row with status "creating", the upload saved
\* to a temp file, then the creation task.  An agent gets a fresh uuid, so
\* it is created once.
NameTaken(name) ==
  \E b \in AgentIds : agentRow[b].status # "none" /\ agentRow[b].name = name

\* What create_agent raises for this request, "" when it goes through.
CreateAgentError(name) ==
  IF stackRow.status = "none" THEN "NotFoundError"
  ELSE IF NameTaken(name) THEN "ConflictError"
  ELSE ""

\* The request goes through: agent a is the fresh uuid, u the upload.
CreateAgentAs(a, name, u) ==
  /\ CreateAgentError(name) = ""
  /\ agentRow[a] = NoAgent
  /\ \A i \in DOMAIN tasks : tasks[i].unit # a
  /\ agentRow' = [agentRow EXCEPT ![a].status = "creating", ![a].name = name]
  /\ upload' = [upload EXCEPT ![a] = u]
  /\ Dispatch("agent_create", a)
  /\ UNCHANGED <<file, regVars, environment, stackRow, namespace, postgres,
                 stackDir, agentDir>>

CreateAgent(a) == \E u \in Uploads : CreateAgentAs(a, AgentName(a), u)

\* DELETE /agents/{agent_id}: status "deleting" whatever it was, then the
\* deletion task.
DeleteAgent(a) ==
  /\ agentRow[a].status # "none"
  /\ agentRow' = [agentRow EXCEPT ![a].status = "deleting"]
  /\ Dispatch("agent_delete", a)
  /\ UNCHANGED <<file, regVars, environment, stackRow, namespace, postgres,
                 stackDir, agentDir, upload>>

\* --------------------------------------------------- complete_agent_creation
\* The task is done; os.unlink(temp_file_path) where the code does so.
DropTemp(a) == upload' = [upload EXCEPT ![a].temp = "missing"]

\* Mutant of ACLoad: the status of the row that was found is not looked at.
ACLoadAnyStatus(i) ==
  /\ TaskAt(i, "agent_create", "load")
  /\ LET a == tasks[i].unit
     IN IF agentRow[a].status = "none"
        THEN DropTemp(a) /\ Advance(i, "done", [step |-> "load", result |-> "not found"])
        ELSE UNCHANGED upload /\ Advance(i, "mkdir", [step |-> "load", result |-> "found"])
  /\ UNCHANGED <<file, regVars, environment, stackRow, agentRow, namespace,
                 postgres, stackDir, agentDir>>

\* The row is not there, or not "creating": only the temp file goes.
ACLoad(i) ==
  /\ TaskAt(i, "agent_create", "load")
  /\ LET a == tasks[i].unit
     IN IF agentRow[a].status = "none"
        THEN DropTemp(a) /\ Advance(i, "done", [step |-> "load", result |-> "not found"])
        ELSE IF agentRow[a].status # "creating"
        THEN DropTemp(a) /\ Advance(i, "done", [step |-> "load", result |-> "skipped"])
        ELSE UNCHANGED upload /\ Advance(i, "mkdir", [step |-> "load", result |-> "found"])
  /\ UNCHANGED <<file, regVars, environment, stackRow, agentRow, namespace,
                 postgres, stackDir, agentDir>>

\* 1. create_agent_directory: mkdir(parents=True, exist_ok=True)
ACMkdir(i) ==
  /\ TaskAt(i, "agent_create", "mkdir")
  /\ LET a == tasks[i].unit
     IN \E r \in {"ok", "error"} :
          IF r = "ok"
          THEN /\ agentDir' = [agentDir EXCEPT ![a] = IF @ = "absent" THEN "dir" ELSE @]
               /\ stackDir' = TRUE
               /\ Advance(i, "copy", [step |-> "mkdir", result |-> r])
          ELSE /\ UNCHANGED <<agentDir, stackDir>>
               /\ Advance(i, "fail", [step |-> "mkdir", result |-> r])
  /\ UNCHANGED <<file, regVars, environment, stackRow, agentRow, namespace,
                 postgres, upload>>

\* 2. the temp file must exist and not be empty; shutil.copy2 to agent.zip,
\* then the temp file is unlinked.
ACCopy(i) ==
  /\ TaskAt(i, "agent_create", "copy")
  /\ LET a == tasks[i].unit
     IN \E r \in (CASE upload[a].temp = "missing" -> {"FileNotFoundError"}
                    [] upload[a].temp = "empty" -> {"ValueError"}
                    [] agentDir[a] = "absent" -> {"error"}
                    [] OTHER -> {"ok", "error"}) :
          /\ agentDir' = [agentDir EXCEPT ![a] =
                            IF r \in {"ok", "error"} /\ @ # "absent" THEN "zip" ELSE @]
          /\ IF r = "ok"
             THEN DropTemp(a) /\ Advance(i, "extract", [step |-> "copy", result |-> r])
             ELSE UNCHANGED upload /\ Advance(i, "fail", [step |-> "copy", result |-> r])
  /\ UNCHANGED <<file, regVars, environment, stackRow, agentRow, namespace,
                 postgres, stackDir>>

\* 3. extract_agent_zip into extracted/
ACExtract(i) ==
  /\ TaskAt(i, "agent_create", "extract")
  /\ LET a == tasks[i].unit
     IN \E r \in (IF agentDir[a] = "absent" THEN {"FileNotFoundError"}
                  ELSE {"ok", "error"}) :
          IF r = "ok"
          THEN /\ agentDir' = [agentDir EXCEPT ![a] = "extracted"]
               /\ Advance(i, "detect", [step |-> "extract", result |-> r])
          ELSE /\ UNCHANGED agentDir
               /\ Advance(i, "fail", [step |-> "extract", result |-> r])
  /\ UNCHANGED <<file, regVars, environment, stackRow, agentRow, namespace,
                 postgres, stackDir, upload>>

\* 4. detect_agent_slug, 5. graph_id and graph_path, and the check that
\* graph.py is at the computed path.
ACDetect(i) ==
  /\ TaskAt(i, "agent_create", "detect")
  /\ LET a == tasks[i].unit
         t == IF agentDir[a] = "extracted" THEN upload[a].tree ELSE {}
     IN \E slug \in detect_agent_slug(t) :
          IF slug = "ValueError"
          THEN Advance(i, "fail", [step |-> "detect", result |-> slug])
          ELSE IF ~GraphFileExists(t, slug)
          THEN tasks' = [tasks EXCEPT
                           ![i].pc = "fail",
                           ![i].slug = slug,
                           ![i].log = Append(Append(@, [step |-> "detect", result |-> "ok"]),
                                             [step |-> "verify",
                                              result |-> "FileNotFoundError"])]
          ELSE tasks' = [tasks EXCEPT
                           ![i].pc = "upsert",
                           ![i].slug = slug,
                           ![i].log = Append(Append(@, [step |-> "detect", result |-> "ok"]),
                                             [step |-> "verify", result |-> "ok"])]
  /\ UNCHANGED <<file, regVars, environment, stackRow, agentRow, namespace,
                 postgres, stackDir, agentDir, upload>>

\* 6. aegra_json.update_graph_entry(graph_id, graph_path)
ACUpsert(i) ==
  /\ TaskAt(i, "agent_create", "upsert")
  /\ LET a == tasks[i].unit
     IN \E r \in (IF RegistryUpsertRaises(file) THEN {"error"} ELSE {"ok", "error"}) :
          IF r = "ok"
          THEN /\ file' = RegistryUpsert(file, GraphId(TheStack, a),
                                         GraphPath(a, tasks[i].slug))
               /\ Advance(i, "validate", [step |-> "upsert", result |-> r])
          ELSE /\ UNCHANGED file
               /\ Advance(i, "fail", [step |-> "upsert", result |-> r])
  /\ UNCHANGED <<regVars, environment, stackRow, agentRow, namespace, postgres,
                 stackDir, agentDir, upload>>

\* Mutant of ACValidate: the answer of validate_aegra_json is only logged.
ACValidateLenient(i) ==
  /\ TaskAt(i, "agent_create", "validate")
  /\ \E r \in RegistryValidate(file) :
       Advance(i, "ready", [step |-> "validate", result |-> IF r = "" THEN "ok" ELSE r])
  /\ UNCHANGED <<file, regVars, environment, stackRow, agentRow, namespace,
                 postgres, stackDir, agentDir, upload>>

\* 7. aegra_json.validate_aegra_json(); not valid raises.
ACValidate(i) ==
  /\ TaskAt(i, "agent_create", "validate")
  /\ \E r \in RegistryValidate(file) :
       IF r = ""
       THEN Advance(i, "ready", [step |-> "validate", result |-> "ok"])
       ELSE Advance(i, "fail", [step |-> "validate", result |-> r])
  /\ UNCHANGED <<file, regVars, environment, stackRow, agentRow, namespace,
                 postgres, stackDir, agentDir, upload>>

\* 8. the fields and status "ready" in one commit.  On a row that is gone
\* the commit raises, and so does the commit of "failed" in the handler: the
\* task ends in the outer handler.
ACReady(i) ==
  /\ TaskAt(i, "agent_create", "ready")
  /\ LET a == tasks[i].unit
     IN IF agentRow[a].status = "none"
        THEN /\ UNCHANGED agentRow
             /\ Advance(i, "done", [step |-> "status", result |-> "StaleDataError"])
        ELSE /\ agentRow' = [agentRow EXCEPT
                               ![a].status = "ready",
                               ![a].graph_id = GraphId(TheStack, a),
                               ![a].disk_path = a \o "/extracted",
                               ![a].api_url = "aegra_api_public_url",
                               ![a].ui_url = "chat_ui_base_url"]
             /\ Advance(i, "done", [step |-> "status", result |-> "ready"])
  /\ UNCHANGED <<file, regVars, environment, stackRow, namespace, postgres,
                 stackDir, agentDir, upload>>

\* 8. when the commit of "ready" raises on a row that is there (the database
\* or its connection failing): the row keeps what it had and the handler of
\* the try block runs.
ACReadyRaises(i) ==
  /\ TaskAt(i, "agent_create", "ready")
  /\ agentRow[tasks[i].unit].status # "none"
  /\ Advance(i, "fail", [step |-> "status", result |-> "error"])
  /\ UNCHANGED <<file, regVars, environment, stackRow, agentRow, namespace,
                 postgres, stackDir, agentDir, upload>>

\* Mutant of ACFail: the handler goes to the clean-up without marking the
\* agent failed.
ACFailSilently(i) ==
  /\ TaskAt(i, "agent_create", "fail")
  /\ Advance(i, "cleanup", [step |-> "status", result |-> "unchanged"])
  /\ UNCHANGED <<file, regVars, environment, stackRow, agentRow, namespace,
                 postgres, stackDir, agentDir, upload>>

\* except Exception: agent.status = "failed" and commit; on a row that is
\* gone the commit raises and the clean-up below is not reached.
ACFail(i) ==
  /\ TaskAt(i, "agent_create", "fail")
  /\ LET a == tasks[i].unit
     IN IF agentRow[a].status = "none"
        THEN /\ UNCHANGED agentRow
             /\ Advance(i, "done", [step |-> "status", result |-> "StaleDataError"])
        ELSE /\ agentRow' = [agentRow EXCEPT ![a].status = "failed"]
             /\ Advance(i, "cleanup", [step |-> "status", result |-> "failed"])
  /\ UNCHANGED <<file, regVars, environment, stackRow, namespace, postgres,
                 stackDir, agentDir, upload>>

\* Mutant of ACFailRaises: no outer handler, the exception leaves the task.
ACFailEscapes(i) ==
  /\ TaskAt(i, "agent_create", "fail")
  /\ agentRow[tasks[i].unit].status # "none"
  /\ UNCHANGED upload
  /\ Advance(i, "raised", [step |-> "status", result |-> "error"])
  /\ UNCHANGED <<file, regVars, environment, stackRow, agentRow, namespace,
                 postgres, stackDir, agentDir>>

\* except Exception: when the commit of "failed" raises on a row that is
\* there, the exception leaves the handler before the clean-up and ends in
\* the outer handler, which only unlinks the temp file.
ACFailRaises(i) ==
  /\ TaskAt(i, "agent_create", "fail")
  /\ agentRow[tasks[i].unit].status # "none"
  /\ DropTemp(tasks[i].unit)
  /\ Advance(i, "done", [step |-> "status", result |-> "error"])
  /\ UNCHANGED <<file, regVars, environment, stackRow, agentRow, namespace,
                 postgres, stackDir, agentDir>>

\* delete_agent_directory, best effort.
ACCleanup(i) ==
  /\ TaskAt(i, "agent_create", "cleanup")
  /\ LET a == tasks[i].unit
     IN \E r \in {"ok", "error"} :
          /\ agentDir' = [agentDir EXCEPT ![a] = IF r = "ok" THEN "absent" ELSE @]
          /\ Advance(i, "done", [step |-> "cleanup", result |-> r])
  /\ UNCHANGED <<file, regVars, environment, stackRow, agentRow, namespace,
                 postgres, stackDir, upload>>

\* --------------------------------------------------- complete_agent_deletion
ADLoad(i) ==
  /\ TaskAt(i, "agent_delete", "load")
  /\ LET a == tasks[i].unit
     IN IF agentRow[a].status = "none"
        THEN Advance(i, "done", [step |-> "load", result |-> "not found"])
        ELSE tasks' = [tasks EXCEPT
                         ![i].pc = "registry",
                         ![i].agents = <<[id |-> a, graph_id |-> agentRow[a].graph_id,
                                          disk_path |-> agentRow[a].disk_path]>>,
                         ![i].log = Append(@, [step |-> "load", result |-> "found"])]
  /\ UNCHANGED <<file, regVars, environment, stackRow, agentRow, namespace,
                 postgres, stackDir, agentDir, upload>>

\* if graph_id: remove_graph_entry, then validate_aegra_json; an exception
\* is logged.
ADRemove(i) ==
  /\ TaskAt(i, "agent_delete", "registry")
  /\ LET h == Head(tasks[i].agents)
     IN \E r \in (IF h.graph_id = "" THEN {"skipped"} ELSE {"ok", "error"}) :
          /\ file' = (IF r = "ok" THEN RegistryRemove(file, h.graph_id) ELSE file)
          /\ \E v \in RegistryValidate(file') :
               tasks' = [tasks EXCEPT
                           ![i].pc = "dir",
                           ![i].log =
                             IF r = "ok"
                             THEN Append(Append(@, [step |-> "remove:" \o h.id, result |-> r]),
                                         [step |-> "validate", result |-> v])
                             ELSE Append(@, [step |-> "remove:" \o h.id, result |-> r])]
  /\ UNCHANGED <<regVars, environment, stackRow, agentRow, namespace, postgres,
                 stackDir, agentDir, upload>>

\* if agent.disk_path: delete_agent_directory, its exception logged.
ADDirectory(i) ==
  /\ TaskAt(i, "agent_delete", "dir")
  /\ LET h == Head(tasks[i].agents)
     IN \E r \in (IF h.disk_path = "" THEN {"skipped"} ELSE {"ok", "error"}) :
          /\ agentDir' = [agentDir EXCEPT ![h.id] = IF r = "ok" THEN "absent" ELSE @]
          /\ Advance(i, "row", [step |-> "rmtree", result |-> r])
  /\ UNCHANGED <<file, regVars, environment, stackRow, agentRow, namespace,
                 postgres, stackDir, upload>>

\* await task_db.delete(agent); commit
ADRow(i) ==
  /\ TaskAt(i, "agent_delete", "row")
  /\ agentRow' = [agentRow EXCEPT ![tasks[i].unit] = NoAgent]
  /\ Advance(i, "done", [step |-> "row", result |-> "deleted"])
  /\ UNCHANGED <<file, regVars, environment, stackRow, namespace, postgres,
                 stackDir, agentDir, upload>>

\* -------------------------------------------------- routers: failed requests
\* Mutant of Reject: the router has queued the background task before the
\* service function raises.
RejectAfterDispatch(op, unit, error) ==
  /\ Len(tasks) < MaxTasks
  /\ rejected' = [op |-> op, unit |-> unit, error |-> error]
  /\ tasks' = Append(tasks, NewTask(op, unit))
  /\ UNCHANGED <<file, regVars, environment, stackRow, agentRow, namespace,
                 postgres, stackDir, agentDir, upload>>

\* The service function raises before it adds or changes a row, and the
\* router's add_task, which comes after the call, is not reached.
Reject(op, unit, error) ==
  /\ rejected' = [op |-> op, unit |-> unit, error |-> error]
  /\ UNCHANGED <<file, regVars, environment, stackRow, agentRow, namespace,
                 postgres, stackDir, agentDir, upload, tasks>>

\* POST /stacks/{stack_id}/agents answered with an error.
CreateAgentRejected(name) ==
  /\ CreateAgentError(name) # ""
  /\ Reject("create_agent", name, CreateAgentError(name))

\* What delete_stack and delete_agent raise for this user, "" when they go
\* through.
DeleteError(status, user) ==
  IF status = "none" THEN "NotFoundError"
  ELSE IF user # Owner THEN "ForbiddenError"
  ELSE ""

\* DELETE /stacks/{id} answered with an error.
DeleteStackRejected(user) ==
  /\ DeleteError(stackRow.status, user) # ""
  /\ Reject("delete_stack", TheStack, DeleteError(stackRow.status, user))

\* DELETE /agents/{agent_id} answered with an error.
DeleteAgentRejected(a, user) ==
  /\ DeleteError(agentRow[a].status, user) # ""
  /\ Reject("delete_agent", a, DeleteError(agentRow[a].status, user))

\* ------------------------------------------------------------ re-invocation
\* complete_stack_creation(stack_id) called again for a stack whose earlier
\* creation task has returned.
RerunStackCreation ==
  /\ stackRow.status # "none"
  /\ \E j \in DOMAIN tasks : tasks[j].kind = "stack_create"
  /\ \A j \in DOMAIN tasks : tasks[j].pc = "done"
  /\ Dispatch("stack_create", TheStack)
  /\ UNCHANGED <<file, regVars, environment, stackRow, agentRow, namespace,
                 postgres, stackDir, agentDir, upload>>

\* complete_stack_deletion(stack_id) called again after an earlier deletion
\* task has returned.
RerunStackDeletion ==
  /\ \E j \in DOMAIN tasks : tasks[j].kind = "stack_delete"
  /\ \A j \in DOMAIN tasks : tasks[j].pc = "done"
  /\ Dispatch("stack_delete", TheStack)
  /\ UNCHANGED <<file, regVars, environment, stackRow, agentRow, namespace,
                 postgres, stackDir, agentDir, upload>>

\* ------------------------------------------------------ orchestrator specs
\* The row of an agent whose creation completed, and what it left behind.
ReadyAgent(a) ==
  [status |-> "ready", name |-> AgentName(a), graph_id |-> GraphId(TheStack, a),
   disk_path |-> a \o "/extracted", api_url |-> "aegra_api_public_url",
   ui_url |-> "chat_ui_base_url"]

RECURSIVE RegistryOf(_)
RegistryOf(as) ==
  IF as = << >> THEN EmptyRegistry
  ELSE SetEntry(RegistryOf(Tail(as)), GraphId(TheStack, Head(as)),
                GraphPath(Head(as), "foo")).data

\* Nothing created yet; the namespace may be there from an earlier attempt.
InitFresh ==
  /\ InitProg({JsonDump(EmptyRegistry)})
  /\ stackRow = NoStack
  /\ agentRow = [a \in AgentIds |-> NoAgent]
  /\ namespace \in {"absent", "present"}
  /\ postgres = "absent"
  /\ stackDir = FALSE
  /\ agentDir = [a \in AgentIds |-> "absent"]

\* A stack that is ready, with the agents "as" ready in it.
InitReady(as) ==
  /\ InitProg({JsonDump(RegistryOf(as))})
  /\ stackRow = [status |-> "ready"]
  /\ agentRow = [a \in AgentIds |->
                   IF \E k \in 1..Len(as) : as[k] = a THEN ReadyAgent(a) ELSE NoAgent]
  /\ namespace = "present"
  /\ postgres = "present"
  /\ stackDir = TRUE
  /\ agentDir = [a \in AgentIds |->
                   IF \E k \in 1..Len(as) : as[k] = a THEN "extracted" ELSE "absent"]

\* Stack requests and stack tasks, in either mode.
InitStack ==
  /\ InitObs
  /\ environment \in {"development", "production"}
  /\ upload = [a \in AgentIds |-> NoUpload]
  /\ tasks = << >>
  /\ rejected = NoRejection
  /\ \/ InitFresh
     \/ InitReady(<< >>)
     \/ InitReady(AgentOrder)

NextStack ==
  \/ CreateStack /\ UNCHANGED rejected
  \/ DeleteStack /\ UNCHANGED rejected
  \/ \E i \in DOMAIN tasks : SCLoad(i) /\ UNCHANGED rejected
  \/ \E i \in DOMAIN tasks : SCNamespace(i) /\ UNCHANGED rejected
  \/ \E i \in DOMAIN tasks : SCPostgres(i) /\ UNCHANGED rejected
  \/ \E i \in DOMAIN tasks : SCDirectory(i) /\ UNCHANGED rejected
  \/ \E i \in DOMAIN tasks : SCReady(i) /\ UNCHANGED rejected
  \/ \E i \in DOMAIN tasks : SDLoad(i) /\ UNCHANGED rejected
  \/ \E i \in DOMAIN tasks : SDRemove(i) /\ UNCHANGED rejected
  \/ \E i \in DOMAIN tasks : SDValidate(i) /\ UNCHANGED rejected
  \/ \E i \in DOMAIN tasks : SDNamespace(i) /\ UNCHANGED rejected
  \/ \E i \in DOMAIN tasks : SDDirectory(i) /\ UNCHANGED rejected
  \/ \E i \in DOMAIN tasks : SDRow(i) /\ UNCHANGED rejected

SpecStack == InitStack /\ [][NextStack]_vars

\* Stack tasks run one after the other, each possibly a second time, from a
\* stack not yet created or from a ready one.
InitRerun ==
  /\ InitObs
  /\ environment \in {"development", "production"}
  /\ upload = [a \in AgentIds |-> NoUpload]
  /\ tasks = << >>
  /\ rejected = NoRejection
  /\ \/ InitFresh /\ namespace = "absent"
     \/ InitReady(AgentOrder)

NextRerun ==
  \/ CreateStack /\ UNCHANGED rejected
  \/ RerunStackCreation /\ UNCHANGED rejected
  \/ /\ DeleteStack
     /\ \A j \in DOMAIN tasks : tasks[j].pc = "done"
     /\ UNCHANGED rejected
  \/ RerunStackDeletion /\ UNCHANGED rejected
  \/ \E i \in DOMAIN tasks : SCLoad(i) /\ UNCHANGED rejected
  \/ \E i \in DOMAIN tasks : SCNamespace(i) /\ UNCHANGED rejected
  \/ \E i \in DOMAIN tasks : SCPostgres(i) /\ UNCHANGED rejected
  \/ \E i \in DOMAIN tasks : SCDirectory(i) /\ UNCHANGED rejected
  \/ \E i \in DOMAIN tasks : SCReady(i) /\ UNCHANGED rejected
  \/ \E i \in DOMAIN tasks : SDLoad(i) /\ UNCHANGED rejected
  \/ \E i \in DOMAIN tasks : SDRemove(i) /\ UNCHANGED rejected
  \/ \E i \in DOMAIN tasks : SDValidate(i) /\ UNCHANGED rejected
  \/ \E i \in DOMAIN tasks : SDNamespace(i) /\ UNCHANGED rejected
  \/ \E i \in DOMAIN tasks : SDDirectory(i) /\ UNCHANGED rejected
  \/ \E i \in DOMAIN tasks : SDRow(i) /\ UNCHANGED rejected

SpecRerun == InitRerun /\ [][NextRerun]_vars

\* Requests of two users, accepted or rejected, on a stack that is there or
\* not, and the tasks of the accepted ones; every upload is foo/graph.py.
GoodUpload ==
  [temp |-> "present",
   tree |-> {Entry(<<"foo">>, TRUE), Entry(<<"foo", EntryName>>, FALSE)}]

InitRequests ==
  /\ InitObs
  /\ environment = "development"
  /\ upload = [a \in AgentIds |-> NoUpload]
  /\ tasks = << >>
  /\ rejected = NoRejection
  /\ \/ InitFresh /\ namespace = "absent"
     \/ InitReady(<< >>)

NextRequests ==
  \/ \E name \in AgentNames : CreateAgentRejected(name)
  \/ \E user \in Users : DeleteStackRejected(user)
  \/ \E a \in AgentIds, user \in Users : DeleteAgentRejected(a, user)
  \/ \E a \in AgentIds, name \in AgentNames :
       CreateAgentAs(a, name, GoodUpload) /\ UNCHANGED rejected
  \/ \E a \in AgentIds : DeleteAgent(a) /\ UNCHANGED rejected
  \/ DeleteStack /\ UNCHANGED rejected
  \/ \E i \in DOMAIN tasks : ACLoad(i) /\ UNCHANGED rejected
  \/ \E i \in DOMAIN tasks : ACMkdir(i) /\ UNCHANGED rejected
  \/ \E i \in DOMAIN tasks : ACCopy(i) /\ UNCHANGED rejected
  \/ \E i \in DOMAIN tasks : ACExtract(i) /\ UNCHANGED rejected
  \/ \E i \in DOMAIN tasks : ACDetect(i) /\ UNCHANGED rejected
  \/ \E i \in DOMAIN tasks : ACUpsert(i) /\ UNCHANGED rejected
  \/ \E i \in DOMAIN tasks : ACValidate(i) /\ UNCHANGED rejected
  \/ \E i \in DOMAIN tasks : ACReady(i) /\ UNCHANGED rejected
  \/ \E i \in DOMAIN tasks : ACReadyRaises(i) /\ UNCHANGED rejected
  \/ \E i \in DOMAIN tasks : ACFail(i) /\ UNCHANGED rejected
  \/ \E i \in DOMAIN tasks : ACFailRaises(i) /\ UNCHANGED rejected
  \/ \E i \in DOMAIN tasks : ACCleanup(i) /\ UNCHANGED rejected
  \/ \E i \in DOMAIN tasks : ADLoad(i) /\ UNCHANGED rejected
  \/ \E i \in DOMAIN tasks : ADRemove(i) /\ UNCHANGED rejected
  \/ \E i \in DOMAIN tasks : ADDirectory(i) /\ UNCHANGED rejected
  \/ \E i \in DOMAIN tasks : ADRow(i) /\ UNCHANGED rejected
  \/ \E i \in DOMAIN tasks : SDLoad(i) /\ UNCHANGED rejected
  \/ \E i \in DOMAIN tasks : SDRemove(i) /\ UNCHANGED rejected
  \/ \E i \in DOMAIN tasks : SDValidate(i) /\ UNCHANGED rejected
  \/ \E i \in DOMAIN tasks : SDNamespace(i) /\ UNCHANGED rejected
  \/ \E i \in DOMAIN tasks : SDDirectory(i) /\ UNCHANGED rejected
  \/ \E i \in DOMAIN tasks : SDRow(i) /\ UNCHANGED rejected

SpecRequests == InitRequests /\ [][NextRequests]_vars

\* Agent requests and agent tasks in a ready stack, and the stack's deletion.
InitAgents ==
  /\ InitObs
  /\ environment = "development"
  /\ upload = [a \in AgentIds |-> NoUpload]
  /\ tasks = << >>
  /\ rejected = NoRejection
  /\ InitReady(<< >>)

NextAgents ==
  \/ \E a \in AgentIds : CreateAgent(a) /\ UNCHANGED rejected
  \/ \E a \in AgentIds : DeleteAgent(a) /\ UNCHANGED rejected
  \/ DeleteStack /\ UNCHANGED rejected
  \/ \E i \in DOMAIN tasks : ACLoad(i) /\ UNCHANGED rejected
  \/ \E i \in DOMAIN tasks : ACMkdir(i) /\ UNCHANGED rejected
  \/ \E i \in DOMAIN tasks : ACCopy(i) /\ UNCHANGED rejected
  \/ \E i \in DOMAIN tasks : ACExtract(i) /\ UNCHANGED rejected
  \/ \E i \in DOMAIN tasks : ACDetect(i) /\ UNCHANGED rejected
  \/ \E i \in DOMAIN tasks : ACUpsert(i) /\ UNCHANGED rejected
  \/ \E i \in DOMAIN tasks : ACValidate(i) /\ UNCHANGED rejected
  \/ \E i \in DOMAIN tasks : ACReady(i) /\ UNCHANGED rejected
  \/ \E i \in DOMAIN tasks : ACReadyRaises(i) /\ UNCHANGED rejected
  \/ \E i \in DOMAIN tasks : ACFail(i) /\ UNCHANGED rejected
  \/ \E i \in DOMAIN tasks : ACFailRaises(i) /\ UNCHANGED rejected
  \/ \E i \in DOMAIN tasks : ACCleanup(i) /\ UNCHANGED rejected
  \/ \E i \in DOMAIN tasks : ADLoad(i) /\ UNCHANGED rejected
  \/ \E i \in DOMAIN tasks : ADRemove(i) /\ UNCHANGED rejected
  \/ \E i \in DOMAIN tasks : ADDirectory(i) /\ UNCHANGED rejected
  \/ \E i \in DOMAIN tasks : ADRow(i) /\ UNCHANGED rejected
  \/ \E i \in DOMAIN tasks : SDLoad(i) /\ UNCHANGED rejected
  \/ \E i \in DOMAIN tasks : SDRemove(i) /\ UNCHANGED rejected
  \/ \E i \in DOMAIN tasks : SDValidate(i) /\ UNCHANGED rejected
  \/ \E i \in DOMAIN tasks : SDNamespace(i) /\ UNCHANGED rejected
  \/ \E i \in DOMAIN tasks : SDDirectory(i) /\ UNCHANGED rejected
  \/ \E i \in DOMAIN tasks : SDRow(i) /\ UNCHANGED rejected

SpecAgents == InitAgents /\ [][NextAgents]_vars

\* detect_agent_slug on every tree of Trees: one creation task of agent a1
\* stands before its slug detection, the tree extracted; the task runs on
\* from there.
InitSlug ==
  /\ InitObs
  /\ InitProg({JsonDump(EmptyRegistry)})
  /\ environment = "development"
  /\ stackRow = [status |-> "ready"]
  /\ agentRow = [a \in AgentIds |->
                   IF a = "a1"
                   THEN [NoAgent EXCEPT !.status = "creating", !.name = AgentName(a)]
                   ELSE NoAgent]
  /\ namespace = "present"
  /\ postgres = "present"
  /\ stackDir = TRUE
  /\ agentDir = [a \in AgentIds |-> IF a = "a1" THEN "extracted" ELSE "absent"]
  /\ \E t \in Trees :
       upload = [a \in AgentIds |->
                   IF a = "a1" THEN [temp |-> "missing", tree |-> t] ELSE NoUpload]
  /\ tasks = <<[NewTask("agent_create", "a1") EXCEPT !.pc = "detect"]>>
  /\ rejected = NoRejection

NextSlug ==
  \/ \E i \in DOMAIN tasks : ACDetect(i) /\ UNCHANGED rejected
  \/ \E i \in DOMAIN tasks : ACUpsert(i) /\ UNCHANGED rejected
  \/ \E i \in DOMAIN tasks : ACValidate(i) /\ UNCHANGED rejected
  \/ \E i \in DOMAIN tasks : ACReady(i) /\ UNCHANGED rejected
  \/ \E i \in DOMAIN tasks : ACReadyRaises(i) /\ UNCHANGED rejected
  \/ \E i \in DOMAIN tasks : ACFail(i) /\ UNCHANGED rejected
  \/ \E i \in DOMAIN tasks : ACFailRaises(i) /\ UNCHANGED rejected
  \/ \E i \in DOMAIN tasks : ACCleanup(i) /\ UNCHANGED rejected

SpecSlug == InitSlug /\ [][NextSlug]_vars

\* ====================================================================== claims
SeqDone(op) == pc[Caller] = "done" /\ call[Caller].op = op
SeqOk == ret[Caller].err = ""

\* How often a key occurs in a member list.
Occurrences(g, key) == Cardinality({i \in 1..Len(g) : g[i][1] = key})

\* C1 (as claimed): while writers run, an uncoordinated reader of the
\* canonical file sees a complete JSON document {"graphs": {...}} at every
\* instant: no step of a writer leaves the file empty or half-written.
C1_ReaderNeverSeesTornFile == [][file' # file => WellShaped(file')]_vars

\* C2: a successful upsert or remove stays reflected in the registry until
\* another call writes the same entry, whatever the other writers do
\* meanwhile; and from its read of the document to its rename the writer
\* holds the lock.
InsideLock == {"rd", "w_check", "e_check", "e_open", "e_dump", "t_open", "t_dump",
               "t_parse", "t_replace", "t_cleanup", "release"}

Reflected(c) ==
  Lookup(file, c.id) = (IF c.op = "upsert" THEN c.path ELSE "<none>")

C2_NoLostUpdate ==
  \A p \in Procs :
    /\ (pc[p] = "done" /\ Mutation(call[p]) /\ ret[p].err = "" /\ ~superseded[p])
         => Reflected(call[p])
    /\ (pc[p] \in InsideLock /\ Mutation(call[p])) => lock = p

\* C2 witness: two overlapping upserts of different ids, each changing its
\* entry's path, have both returned and both show in the file.
C2_Witness ==
  /\ overlapped
  /\ \A p \in Procs :
       /\ pc[p] = "done"
       /\ ret[p].err = ""
       /\ ~superseded[p]
       /\ call[p].op = "upsert"
       /\ call[p].path = "p2"
       /\ Reflected(call[p])
  /\ call["pid1"].id # call["pid2"].id

\* C3 (as claimed): read() on a missing file returns {"graphs": {}} and
\* creates neither the file nor its directory.
C3_ReadMissingNoSideEffect ==
  (SeqDone("read") /\ pre.file = NoFile)
    => /\ ret[Caller] = [err |-> "", data |-> EmptyRegistry]
       /\ file = NoFile
       /\ dirExists = pre.dir

\* C4: upsert(id, p), then remove(id), then read(): the mapping read has no
\* entry for id.
C4_Applies ==
  /\ SeqDone("read")
  /\ Len(hist) >= 2
  /\ hist[Len(hist) - 1].op = "upsert"
  /\ hist[Len(hist)].op = "remove"
  /\ hist[Len(hist) - 1].id = hist[Len(hist)].id

C4_UpsertRemoveRead ==
  C4_Applies
    => /\ SeqOk
       /\ ret[Caller].data.k = "dict"
       /\ ~DictHas(ret[Caller].data.g, hist[Len(hist)].id)

\* C4 witness: the sequence ran from a registry that held other entries.
C4_Witness == C4_Applies /\ SeqOk /\ ret[Caller].data.g # << >>

\* C5: upsert(id, p1), then upsert(id, p2), then read(): id maps to p2 and
\* occurs once, in the mapping read and in the document on disk.
C5_Applies ==
  /\ SeqDone("read")
  /\ Len(hist) >= 2
  /\ hist[Len(hist) - 1].op = "upsert"
  /\ hist[Len(hist)].op = "upsert"
  /\ hist[Len(hist) - 1].id = hist[Len(hist)].id

C5_UpsertTwiceRead ==
  C5_Applies
    => /\ SeqOk
       /\ ret[Caller].data.k = "dict"
       /\ Occurrences(ret[Caller].data.g, hist[Len(hist)].id) = 1
       /\ DictGet(ret[Caller].data.g, hist[Len(hist)].id) = hist[Len(hist)].path
       /\ Occurrences(file.g, hist[Len(hist)].id) = 1

\* C5 witness: the two upserts gave different paths.
C5_Witness ==
  C5_Applies /\ SeqOk /\ hist[Len(hist) - 1].path # hist[Len(hist)].path

\* C6: a successful upsert(id, p) or remove(id) leaves the path of every
\* other id as it was, and distinct (stack_id, agent_id) pairs have distinct
\* graph ids.
C6_EntriesIndependent ==
  /\ (pc[Caller] = "done" /\ Mutation(call[Caller]) /\ SeqOk)
       => \A j \in Ids \ {call[Caller].id} :
            Lookup(file, j) = Lookup(pre.file, j)
  /\ \A u, v \in StackIds \X AgentIds :
       u # v => GraphId(u[1], u[2]) # GraphId(v[1], v[2])

\* C6 witness: a mutation that changed the file beside another id's entry.
C6_Witness ==
  /\ pc[Caller] = "done"
  /\ Mutation(call[Caller])
  /\ SeqOk
  /\ file # pre.file
  /\ \E j \in Ids \ {call[Caller].id} : Lookup(file, j) # "<none>"

\* C7 (as claimed): a write that fails before the rename leaves the
\* canonical file as it was before the call and removes the temp file; a
\* successful write leaves no temp file.
FailedBeforeRename ==
  {"OSError: open temp", "OSError: dump", "OSError: fsync",
   "Exception: Temp file contains invalid JSON"}

C7_FailedWriteTouchesNothing ==
  (pc[Caller] = "done" /\ call[Caller].op \in {"write", "upsert", "remove"})
    => /\ ret[Caller].err \in FailedBeforeRename
            => file = pre.file /\ tmp[Caller] = NoFile
       /\ SeqOk => tmp[Caller] = NoFile

\* C8 (as claimed): validate() changes nothing and answers (true, "")
\* exactly when the file holds a JSON object whose "graphs" is an object.
C8_ValidateIsPure ==
  SeqDone("validate")
    => /\ file = pre.file
       /\ dirExists = pre.dir
       /\ SeqOk <=> WellShaped(pre.file)

\* C9 (as claimed): read() on a present file that is not a JSON object with
\* a "graphs" object raises, returns no mapping and repairs nothing.
C9_ReadMalformedRaises ==
  (SeqDone("read") /\ pre.file # NoFile /\ ~WellShaped(pre.file))
    => ~SeqOk /\ file = pre.file

\* C10 (as claimed): a call that timed out waiting for the lock ends with an
\* outcome no malformed file produces, and it has not changed the registry
\* file.
MalformedOutcomes ==
  {"JSONDecodeError", "UnicodeDecodeError", "TypeError", "AttributeError"}

C10_TimeoutDistinctAndHarmless ==
  \A p \in Procs :
    (pc[p] = "done" /\ ret[p].err = TimeoutError(call[p].op))
      => ret[p].err \notin MalformedOutcomes /\ ~touched[p]

\* C11: remove(id) for an id the registry does not hold (the file missing, or
\* a valid document without the id) returns successfully, never enters the
\* write path (no ensure, no temp file, no rename) and leaves the file's
\* existence and content as they were.
C11_Absent ==
  /\ call[Caller].op = "remove"
  /\ pre.file = NoFile \/ WellShaped(pre.file)
  /\ Lookup(pre.file, call[Caller].id) = "<none>"

C11_RemoveAbsentIsNoOp ==
  C11_Absent
    => /\ pc[Caller] \in {"acquire", "rd", "release", "done"}
       /\ file = pre.file
       /\ tmp[Caller] = NoFile
       /\ SeqOk

\* C11 witness: remove(id) has returned on a missing registry file.
C11_Witness == C11_Absent /\ pc[Caller] = "done" /\ pre.file = NoFile

\* C12 (as claimed): the only status changes a lifecycle task makes to a
\* unit are creating -> ready, creating -> failed, deleting -> row removed
\* and deleting -> failed.  A step that dispatches no task is a task's step.
TaskMoves ==
  {<<"creating", "ready">>, <<"creating", "failed">>,
   <<"deleting", "none">>, <<"deleting", "failed">>}

C12_OnlyLifecycleTransitions ==
  [][Len(tasks') = Len(tasks)
       => /\ stackRow'.status # stackRow.status
               => <<stackRow.status, stackRow'.status>> \in TaskMoves
          /\ \A a \in AgentIds :
               agentRow'[a].status # agentRow[a].status
                 => <<agentRow[a].status, agentRow'[a].status>> \in TaskMoves]_vars

\* C13 (as claimed): in every state an agent whose status is ready has
\* graph_id, disk_path, api_url and ui_url set and its graph_id in the
\* registry.
C13_ReadyAgentIsRegistered ==
  \A a \in AgentIds :
    agentRow[a].status = "ready"
      => /\ agentRow[a].graph_id # ""
         /\ agentRow[a].disk_path # ""
         /\ agentRow[a].api_url # ""
         /\ agentRow[a].ui_url # ""
         /\ Lookup(file, agentRow[a].graph_id) # "<none>"

\* C14 (as claimed): no unit has two of its lifecycle tasks executing at the
\* same instant.
C14_OneTaskPerUnit ==
  \A i, j \in DOMAIN tasks :
    (i # j /\ tasks[i].unit = tasks[j].unit) => ~(Executing(i) /\ Executing(j))

\* What a task's log says.
Logged(i, step, result) ==
  \E k \in DOMAIN tasks[i].log : tasks[i].log[k] = [step |-> step, result |-> result]

LastStep(i) == tasks[i].log[Len(tasks[i].log)].step

Finished(i, kind) == tasks[i].kind = kind /\ tasks[i].pc = "done"

DeleteRequested(unit) ==
  \E j \in DOMAIN tasks :
    tasks[j].unit = unit /\ tasks[j].kind \in {"stack_delete", "agent_delete"}

EntryFiles(t) == {e \in GraphFiles(t) : ~e.dir}

C16_Applies(a) ==
  /\ agentRow[a].status # "none" \/ \E i \in DOMAIN tasks : tasks[i].unit = a
  /\ EntryFiles(upload[a].tree) = {}

C16_NoEntryPointNeverRegistered ==
  \A a \in AgentIds :
    C16_Applies(a)
      => /\ Lookup(file, GraphId(TheStack, a)) = "<none>"
         /\ \A i \in DOMAIN tasks :
              tasks[i].unit = a
                => /\ ~Logged(i, "upsert", "ok")
                   /\ (Finished(i, "agent_create") /\ ~DeleteRequested(a)
                         /\ ~DeleteRequested(TheStack))
                        => agentRow[a].status = "failed"

\* C17 (as claimed): a finished deletion of a stack with agents has called
\* remove_graph_entry for each agent (the entry gone where the call
\* succeeded), has attempted the deletion of every agent directory, one
\* failing attempt not keeping it from the others, and has submitted the
\* namespace deletion.
RemovalTried(i, a) ==
  \E r \in {"ok", "error"} : Logged(i, "remove:" \o a, r)

C17_StackDeletionReachesEveryAgent ==
  \A i \in DOMAIN tasks :
    (Finished(i, "stack_delete") /\ \A a \in AgentIds : RemovalTried(i, a))
      => /\ \A a \in AgentIds :
              /\ Logged(i, "remove:" \o a, "ok")
                   => Lookup(file, GraphId(TheStack, a)) = "<none>"
              /\ agentDir[a] # "absent" => a \in tasks[i].tried
         /\ \E r \in {"200", "404", "error", "timeout"} : Logged(i, "namespace", r)

\* C18 (as claimed): on every tree, detect_agent_slug answers as the rule
\* says: a graph.py file below the root gives the name of the root's child
\* on the way to it; one at the root gives the name of the only top-level
\* directory, or "agent" when there are none or several; no graph.py file
\* anywhere is a failure.
RuleSlug(t, e) ==
  LET top == {d \in t : d.dir /\ Len(d.path) = 1}
  IN IF Len(e.path) > 1 THEN e.path[1]
     ELSE IF Cardinality(top) = 1 THEN (CHOOSE d \in top : TRUE).path[1]
     ELSE "agent"

RuleSlugs(t) ==
  IF EntryFiles(t) = {} THEN {"ValueError"}
  ELSE {RuleSlug(t, e) : e \in EntryFiles(t)}

Detected(i) ==
  IF Logged(i, "detect", "ValueError") THEN "ValueError" ELSE tasks[i].slug

C18_SlugFollowsRule ==
  \A i \in DOMAIN tasks :
    (tasks[i].kind = "agent_create" /\ tasks[i].pc \notin {"load", "detect"})
      => Detected(i) \in RuleSlugs(upload[tasks[i].unit].tree)

\* The step just taken was taken by task i.
StepOf(i) == i \in DOMAIN tasks /\ tasks'[i] # tasks[i]

CreationOrder == <<"load", "namespace", "postgres", "directory", "status">>

StepNames(i) == [k \in DOMAIN tasks[i].log |-> tasks[i].log[k].step]

StepFailed(entry) ==
  \/ entry.step = "namespace" /\ entry.result \in {"error", "timeout"}
  \/ entry.step = "postgres" /\ entry.result \in {"409", "error", "timeout"}
  \/ entry.step = "directory" /\ entry.result = "error"

StepsBeforeReady ==
  <<[step |-> "load", result |-> "found"], [step |-> "mkdir", result |-> "ok"],
    [step |-> "copy", result |-> "ok"], [step |-> "extract", result |-> "ok"],
    [step |-> "detect", result |-> "ok"], [step |-> "verify", result |-> "ok"],
    [step |-> "upsert", result |-> "ok"], [step |-> "validate", result |-> "ok"]>>

Preceded(i, step, by) ==
  \A k \in DOMAIN tasks[i].log :
    tasks[i].log[k].step = step
      => \E j \in 1..(k - 1) : tasks[i].log[j] = [step |-> by, result |-> "ok"]

C21_ReadyOnlyAfterAllSteps ==
  /\ [](\A i \in DOMAIN tasks :
          tasks[i].kind = "agent_create" =>
            /\ Preceded(i, "extract", "copy")
            /\ Preceded(i, "upsert", "verify")
            /\ Logged(i, "status", "ready")
                 => \A k \in DOMAIN tasks[i].log :
                      tasks[i].log[k].step = "validate" => tasks[i].log[k].result = "ok")
  /\ [][\A a \in AgentIds :
          (agentRow'[a].status = "ready" /\ agentRow[a].status # "ready")
            => \E i \in DOMAIN tasks :
                 /\ StepOf(i)
                 /\ tasks[i].kind = "agent_create"
                 /\ tasks[i].unit = a
                 /\ tasks[i].log = StepsBeforeReady]_vars

\* C21 witness: a creation task has made its agent ready.
C21_Witness ==
  \E i \in DOMAIN tasks :
    /\ Finished(i, "agent_create")
    /\ Logged(i, "status", "ready")
    /\ agentRow[tasks[i].unit].status = "ready"
    /\ agentDir[tasks[i].unit] = "extracted"
    /\ Lookup(file, GraphId(TheStack, tasks[i].unit)) # "<none>"

\* C22 (as claimed): a finished agent creation task one of whose steps
\* failed has left the agent failed and has attempted the deletion of the
\* agent's directory exactly once, whatever that attempt came to (stated for
\* agents whose deletion, and whose stack's deletion, was not requested).
CreationStepFailed(i) ==
  \E k \in DOMAIN tasks[i].log :
    /\ tasks[i].log[k].step \in {"mkdir", "copy", "extract", "detect", "verify",
                                 "upsert", "validate", "status"}
    /\ tasks[i].log[k].result \notin {"ok", "ready", "failed"}

Attempts(i, step) ==
  Cardinality({k \in DOMAIN tasks[i].log : tasks[i].log[k].step = step})

C22_FailedAndCleanedOnce ==
  \A i \in DOMAIN tasks :
    (Finished(i, "agent_create") /\ CreationStepFailed(i)
       /\ ~DeleteRequested(tasks[i].unit) /\ ~DeleteRequested(TheStack))
      => /\ agentRow[tasks[i].unit].status = "failed"
         /\ Attempts(i, "cleanup") = 1

\* C23: the stack row is removed only by the step of a deletion task that
\* has gone through the registry removal of every agent it loaded, the
\* namespace deletion and the directory deletion, in that order; the task
\* loads every agent row there is; and a deletion task that found the row
\* does not end without removing it, whatever those steps came to.
Position(i, step) ==
  {k \in DOMAIN tasks[i].log : tasks[i].log[k].step = step}

IsRemoveStep(step) == \E a \in AgentIds : step = "remove:" \o a

TeardownInOrder(i) ==
  /\ tasks[i].agents = << >>
  /\ \E kn \in Position(i, "namespace"), kd \in Position(i, "rmtree") :
       /\ kn < kd
       /\ \A k \in DOMAIN tasks[i].log :
            IsRemoveStep(tasks[i].log[k].step) => k < kn

OnlyAlreadyExists(i) ==
  /\ Logged(i, "load", "found")
  /\ \A k \in DOMAIN tasks[i].log :
       tasks[i].log[k].result \in {"found", "201", "409", "ok", "ready"}

C24_ReinvocationConverges ==
  \A i \in DOMAIN tasks :
    /\ (Finished(i, "stack_create") /\ OnlyAlreadyExists(i))
         => Logged(i, "status", "ready")
    /\ (Finished(i, "stack_delete") /\ Logged(i, "load", "found"))
         => Logged(i, "row", "deleted")

\* C25: no lifecycle task ends by raising: whatever fails in it, the task
\* function returns; and the step in which something failed leaves the rows
\* of the stack and of the agents as they were or marks the task's unit
\* failed.
Succeeded == {"found", "201", "409", "200", "404", "ok", "", "ready", "deleted",
              "skipped", "absent"}

UnitStatus(unit) ==
  IF unit = TheStack THEN stackRow.status ELSE agentRow[unit].status

UnitStatusAfter(unit) ==
  IF unit = TheStack THEN stackRow'.status ELSE agentRow'[unit].status

C25_FailuresStayInsideTheTask ==
  /\ [](\A i \in DOMAIN tasks : tasks[i].pc # "raised")
  /\ [][\A i \in DOMAIN tasks :
          (StepOf(i) /\ tasks'[i].log[Len(tasks'[i].log)].result \notin Succeeded)
            => \/ stackRow' = stackRow /\ agentRow' = agentRow
               \/ /\ UnitStatusAfter(tasks[i].unit) = "failed"
                  /\ tasks[i].unit = TheStack => agentRow' = agentRow
                  /\ tasks[i].unit # TheStack
                       => /\ stackRow' = stackRow
                          /\ \A a \in AgentIds \ {tasks[i].unit} :
                               agentRow'[a] = agentRow[a]]_vars

\* C25 witness: an agent creation whose extraction failed and whose handler's
\* commit raised as well has returned.
C25_Witness ==
  \E i \in DOMAIN tasks :
    /\ Finished(i, "agent_create")
    /\ Logged(i, "extract", "error")
    /\ Logged(i, "status", "error")
    /\ agentRow[tasks[i].unit].status = "creating"

\* C26 (as claimed): in every task, the step that follows a registry
\* mutation the task made (an upsert, or a removal, that returned) is its
\* call of validate_aegra_json.
IsMutation(entry) ==
  /\ entry.step = "upsert" \/ IsRemoveStep(entry.step)
  /\ entry.result = "ok"

C26_ValidateAfterEveryMutation ==
  \A i \in DOMAIN tasks :
    \A k \in DOMAIN tasks[i].log :
      (IsMutation(tasks[i].log[k]) /\ k < Len(tasks[i].log))
        => tasks[i].log[k + 1].step = "validate"

\* C27 (as claimed): a creation task is dispatched only by the request that
\* has just created the unit's row; and a row changes only in a request on
\* that unit (which dispatches a task for it) or in a step of a task of that
\* unit.
Dispatched(unit) ==
  /\ Len(tasks') = Len(tasks) + 1
  /\ tasks'[Len(tasks')].unit = unit

OwnStep(unit) ==
  \/ Dispatched(unit)
  \/ \E i \in DOMAIN tasks : StepOf(i) /\ tasks[i].unit = unit

C27_RowChangedOnlyByOwnUnit ==
  [][/\ \A a \in AgentIds :
          /\ (Dispatched(a) /\ tasks'[Len(tasks')].kind = "agent_create")
               => agentRow[a] = NoAgent /\ agentRow'[a].status = "creating"
          /\ agentRow'[a] # agentRow[a] => OwnStep(a)
     /\ (Dispatched(TheStack) /\ tasks'[Len(tasks')].kind = "stack_create")
          => stackRow = NoStack /\ stackRow'.status = "creating"
     /\ stackRow' # stackRow => OwnStep(TheStack)]_vars

\* C28: a request answered with an error changes no row and dispatches no
\* task; an agent row is created, and its creation task dispatched, only
\* when the stack's row is there and the name is free in it; a deletion task
\* is dispatched only for a row that is there, by the step that sets it
\* "deleting".
C28_RejectedRequestHasNoEffect ==
  /\ [](rejected.error \in {"", "NotFoundError", "ConflictError", "ForbiddenError"})
  /\ [][/\ rejected' # rejected
             => /\ stackRow' = stackRow
                /\ agentRow' = agentRow
                /\ tasks' = tasks
        /\ \A a \in AgentIds :
             (agentRow[a].status = "none" /\ agentRow'[a].status # "none")
               => /\ stackRow.status # "none"
                  /\ ~NameTaken(agentRow'[a].name)
                  /\ rejected' = rejected
        /\ Len(tasks') > Len(tasks)
             => LET t == tasks'[Len(tasks')]
                IN /\ rejected' = rejected
                   /\ t.kind \in {"stack_delete", "agent_delete"}
                        => /\ UnitStatus(t.unit) # "none"
                           /\ UnitStatusAfter(t.unit) = "deleting"]_vars

\* C28 witness: a second agent of a name already in the stack was refused;
\* there is one agent row and the one task of its creation.
C28_Witness ==
  /\ rejected.op = "create_agent"
  /\ rejected.error = "ConflictError"
  /\ NameTaken(rejected.unit)
  /\ Cardinality({a \in AgentIds : agentRow[a].status # "none"}) = 1
  /\ Len(tasks) = 1

\* C29 (as claimed): while the creation task of an agent whose upload is an
\* empty file runs, and after it, the agent has no directory on disk and no
\* registry entry, and the finished task has left the agent failed (stated
\* for agents whose deletion, and whose stack's deletion, was not requested).
C29_EmptyUploadLeavesNothing ==
  \A i \in DOMAIN tasks :
    (tasks[i].kind = "agent_create" /\ upload[tasks[i].unit].temp = "empty")
      => /\ agentDir[tasks[i].unit] = "absent"
         /\ Lookup(file, GraphId(TheStack, tasks[i].unit)) = "<none>"
         /\ (tasks[i].pc = "done" /\ ~DeleteRequested(tasks[i].unit)
               /\ ~DeleteRequested(TheStack) /\ ~Logged(i, "status", "error"))
              => agentRow[tasks[i].unit].status = "failed"

\* C30 (as claimed): once upsert(id, p) has returned successfully, the
\* registry maps id to p in every later state, until a remove or an upsert
\* of the same id runs; reads, validations and start-up initialisations of
\* other processes may run in any interleaving meanwhile.
C30_UpsertIsDurable ==
  \A p \in Procs :
    (pc[p] = "done" /\ call[p].op = "upsert" /\ ret[p].err = "" /\ ~superseded[p])
      => Lookup(file, call[p].id) = call[p].path

\* C31 (as claimed): when an agent creation task has ended and the agent is
\* in status "failed", the registry holds no entry for the agent's graph id,
\* also when the task failed after its update_graph_entry call.
C31_FailedAgentNotRegistered ==
  \A i \in DOMAIN tasks :
    (Finished(i, "agent_create") /\ agentRow[tasks[i].unit].status = "failed")
      => Lookup(file, GraphId(TheStack, tasks[i].unit)) = "<none>"

\* C32 (as claimed): once a stack deletion task, none of whose steps failed,
\* has removed the stack row and every task has returned, the registry holds
\* no entry of an agent of the stack and the stack's directory is gone,
\* however the agent creation tasks dispatched before it interleaved with it.
NoStepFailed(i) ==
  \A k \in DOMAIN tasks[i].log : tasks[i].log[k].result \notin {"error", "timeout"}

AllTasksReturned == \A j \in DOMAIN tasks : tasks[j].pc = "done"

C32_DeletedStackLeavesNothing ==
  \A i \in DOMAIN tasks :
    (/\ Finished(i, "stack_delete")
     /\ Logged(i, "row", "deleted")
     /\ NoStepFailed(i)
     /\ \A j \in DOMAIN tasks : tasks[j].kind = "agent_create" => j < i
     /\ AllTasksReturned)
      => /\ \A a \in AgentIds : Lookup(file, GraphId(TheStack, a)) = "<none>"
         /\ ~stackDir

\* C33 (as claimed): once an agent deletion task, none of whose steps
\* failed, has removed the agent row and every task of that agent has
\* returned, the registry holds no entry for the agent and its directory is
\* gone, whatever the agent's status was when the deletion was requested.
C33_DeletedAgentLeavesNothing ==
  \A i \in DOMAIN tasks :
    (/\ Finished(i, "agent_delete")
     /\ Logged(i, "row", "deleted")
     /\ NoStepFailed(i)
     /\ \A j \in DOMAIN tasks : tasks[j].unit = tasks[i].unit => tasks[j].pc = "done")
      => /\ Lookup(file, GraphId(TheStack, tasks[i].unit)) = "<none>"
         /\ agentDir[tasks[i].unit] = "absent"

\* C34 (as claimed): on every extracted tree on which detect_agent_slug
\* returns a slug, extracted/<slug>/graph.py exists and the verification step
\* of the creation task succeeds, the entry file being at the root or one or
\* several levels below it.
C34_DetectedSlugVerifies ==
  \A i \in DOMAIN tasks :
    (tasks[i].kind = "agent_create" /\ Logged(i, "detect", "ok"))
      => /\ GraphFileExists(upload[tasks[i].unit].tree, tasks[i].slug)
         /\ Logged(i, "verify", "ok")

\* C35: in development a stack creation task runs namespace, PostgreSQL,
\* directory in that order whatever the first two answer: a failed namespace
\* or PostgreSQL step is never the task's last step, and a task that has
\* returned with the directory created has committed "ready", the stack
\* being ready at its end unless its deletion was requested.
ControlPlaneFailed(i) ==
  \E k \in DOMAIN tasks[i].log :
    /\ tasks[i].log[k].step \in {"namespace", "postgres"}
    /\ StepFailed(tasks[i].log[k])

C36_SkippedCreationHasNoEffect ==
  /\ [](\A i \in DOMAIN tasks :
          (tasks[i].kind = "agent_create"
             /\ (Logged(i, "load", "skipped") \/ Logged(i, "load", "not found")))
            => tasks[i].pc = "done" /\ Len(tasks[i].log) = 1)
  /\ [][\A i \in DOMAIN tasks :
          (StepOf(i) /\ tasks[i].kind = "agent_create" /\ tasks[i].pc = "load"
             /\ agentRow[tasks[i].unit].status # "creating")
            => /\ tasks'[i].pc = "done"
               /\ file' = file
               /\ agentDir' = agentDir
               /\ stackDir' = stackDir
               /\ agentRow' = agentRow
               /\ stackRow' = stackRow
               /\ upload' = [upload EXCEPT
                               ![tasks[i].unit].temp = upload'[tasks[i].unit].temp]]_vars

\* C36 witness: a creation task that found its agent "deleting" has returned
\* at once; the agent has no directory and no registry entry, and the temp
\* file is gone.
C36_Witness ==
  \E i \in DOMAIN tasks :
    /\ Finished(i, "agent_create")
    /\ tasks[i].log = <<[step |-> "load", result |-> "skipped"]>>
    /\ agentRow[tasks[i].unit].status = "deleting"
    /\ agentDir[tasks[i].unit] = "absent"
    /\ Lookup(file, GraphId(TheStack, tasks[i].unit)) = "<none>"
    /\ upload[tasks[i].unit].temp = "missing"

\* C37 (as claimed): update_graph_entry and remove_graph_entry on a file
\* that is present and does not parse as JSON (blank, undecodable bytes, or
\* text that is not JSON) raise and leave the file as it was.
NotParseable(c) == c.k \in {"empty", "binary", "garbage"}

C37_UnparseableFileUntouched ==
  (pc[Caller] = "done" /\ Mutation(call[Caller]) /\ NotParseable(pre.file))
    => ~SeqOk /\ file = pre.file

\* C38 (as claimed): a task that found its unit and has returned does not
\* leave it in the status it was started for: no agent or stack is
\* "creating" after its creation task, none "deleting" after its deletion
\* task, whichever step failed, the last commit included.
TransientStatus(kind) ==
  IF kind \in {"stack_create", "agent_create"} THEN "creating" ELSE "deleting"

C38_FinishedTaskLeavesNoTransientStatus ==
  \A i \in DOMAIN tasks :
    (tasks[i].pc = "done" /\ Logged(i, "load", "found"))
      => UnitStatus(tasks[i].unit) # TransientStatus(tasks[i].kind)
====
